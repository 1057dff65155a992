-------------------------- MODULE TrainedModel_proofs --------------------------
(***************************************************************************)
(* Proofs about TrainedModel: with recomputation backward needs no         *)
(* intermediate result of forward, and no recomputed op is left without a  *)
(* user; backward is called with what it was split for; the user gets the  *)
(* outputs of the model, with their values.  On the way: topological_sort  *)
(* returns every node once, after its operands, and what every pass of     *)
(* autograd keeps true of the graph and of the values of its forward nodes.*)
(***************************************************************************)
EXTENDS TrainedModel, TLAPS, FiniteSetTheorems, SequenceTheorems, WellFoundedInduction

(* Every nonempty set of natural numbers has a least element.              *)
LEMMA Least ==
  ASSUME NEW T \in SUBSET Nat, T # {}
  PROVE  \E x \in T : \A y \in T : x <= y
<1> DEFINE R == {p \in Nat \X Nat : p[1] < p[2]}
<1>1. OpToRel(<, Nat) = R
  BY DEF OpToRel
<1>2. IsWellFoundedOn(R, Nat)
  BY <1>1, NatLessThanWellFounded
<1>3. PICK x \in T : \A y \in T : ~(<<y, x>> \in R)
  <2> HIDE DEF R
  <2> QED BY <1>2, WFMin
<1>4. \A y \in T : <<y, x>> \in Nat \X Nat /\ ~(y < x)
  BY <1>3
<1>5. ASSUME NEW y \in T PROVE x <= y
  <2>1. x \in Nat /\ y \in Nat
    OBVIOUS
  <2>2. ~(y < x)
    BY <1>4
  <2> HIDE DEF R
  <2> QED BY <2>1, <2>2
<1> QED BY <1>5

(* Induction, for a set of numbers.                                        *)
LEMMA Induction ==
  ASSUME NEW S, 0 \in S, \A i \in Nat : i \in S => i + 1 \in S
  PROVE  \A i \in Nat : i \in S
<1> DEFINE T == {i \in Nat : i \notin S}
<1> SUFFICES ASSUME T # {} PROVE FALSE
  OBVIOUS
<1>1. PICK k \in T : \A j \in T : k <= j
  <2> HIDE DEF T
  <2>1. T \in SUBSET Nat
    BY DEF T
  <2> QED BY <2>1, Least
<1>2. k \in Nat /\ k # 0
  OBVIOUS
<1>3. k - 1 \in Nat /\ k - 1 \in S
  BY <1>1, <1>2
<1>4. (k - 1) + 1 = k
  BY <1>2
<1> QED BY <1>3, <1>4

(* What is true of 0 and kept by every step up to n is true up to n.       *)
LEMMA InductionTo ==
  ASSUME NEW n \in Nat, NEW S, 0 \in S, \A i \in 0..n : (i \in S /\ i < n) => i + 1 \in S
  PROVE  \A i \in 0..n : i \in S
<1> DEFINE T == {i \in Nat : i <= n => i \in S}
<1>1. 0 \in T
  OBVIOUS
<1>2. \A i \in Nat : i \in T => i + 1 \in T
  OBVIOUS
<1>3. \A i \in Nat : i \in T
  <2> HIDE DEF T
  <2> QED BY <1>1, <1>2, Induction
<1> QED BY <1>3

(* The elements of a bounded set of numbers have a largest one.            *)
LEMMA MaxIs ==
  ASSUME NEW S \in SUBSET Nat, S # {}, NEW b \in Nat, \A x \in S : x <= b
  PROVE  Max(S) \in S /\ \A y \in S : y <= Max(S)
<1> DEFINE T == {b - x : x \in S}
<1>1. T \in SUBSET Nat /\ T # {}
  <2>1. \A x \in S : b - x \in Nat
    OBVIOUS
  <2> QED BY <2>1
<1>2. PICK k \in T : \A j \in T : k <= j
  <2> HIDE DEF T
  <2> QED BY <1>1, Least
<1>3. PICK x \in S : k = b - x
  OBVIOUS
<1>4. \A y \in S : b - x <= b - y
  BY <1>2, <1>3
<1>5. \A y \in S : x >= y
  BY <1>4
<1>6. Max(S) = CHOOSE z \in S : \A y \in S : z >= y
  BY DEF Max
<1>7. Max(S) \in S /\ \A y \in S : Max(S) >= y
  BY <1>5, <1>6
<1> QED BY <1>7

-----------------------------------------------------------------------------
(* Functions that are defined by recursion on the numbers up to n.         *)
RecursionHyp(n, T, base, step) ==
  /\ base \in T[0]
  /\ \A i \in 1..n : \A t \in T[i - 1] : step[i][t] \in T[i]

(* A function defined by recursion on its argument exists, and its values  *)
(* are where the steps lead.                                               *)
LEMMA RecursionExists ==
  ASSUME NEW n \in Nat, NEW T, NEW base, NEW step, RecursionHyp(n, T, base, step)
  PROVE  \E f : /\ f = [i \in 0..n |-> IF i = 0 THEN base ELSE step[i][f[i - 1]]]
                /\ \A i \in 0..n : f[i] \in T[i]
<1> DEFINE Eq(f, k) == /\ f = [i \in 0..k |-> IF i = 0 THEN base ELSE step[i][f[i - 1]]]
                       /\ \A i \in 0..k : f[i] \in T[i]
           S == {k \in Nat : \E f : Eq(f, k)}
<1>1. 0 \in S
  <2> DEFINE f0 == [i \in 0..0 |-> base]
  <2>1. f0[0] = base /\ base \in T[0]
    BY DEF RecursionHyp
  <2>2. f0 = [i \in 0..0 |-> IF i = 0 THEN base ELSE step[i][f0[i - 1]]]
    OBVIOUS
  <2>3. Eq(f0, 0)
    BY <2>1, <2>2
  <2> HIDE DEF f0, Eq
  <2> QED BY <2>3
<1>2. ASSUME NEW k \in 0..n, k \in S, k < n PROVE k + 1 \in S
  <2>1. PICK f : Eq(f, k)
    BY <1>2
  <2> DEFINE g == [i \in 0..(k + 1) |-> IF i = k + 1 THEN step[k + 1][f[k]] ELSE f[i]]
  <2>2. \A i \in 0..k : g[i] = f[i]
    OBVIOUS
  <2>3. g[k + 1] = step[k + 1][g[k]]
    OBVIOUS
  <2>4. \A i \in 0..(k + 1) : g[i] = IF i = 0 THEN base ELSE step[i][g[i - 1]]
    <3> SUFFICES ASSUME NEW i \in 0..(k + 1)
                 PROVE  g[i] = IF i = 0 THEN base ELSE step[i][g[i - 1]]
      OBVIOUS
    <3>1. CASE i = k + 1
      BY <2>3, <3>1
    <3>2. CASE i \in 0..k
      <4>1. f[i] = IF i = 0 THEN base ELSE step[i][f[i - 1]]
        <5>1. f = [j \in 0..k |-> IF j = 0 THEN base ELSE step[j][f[j - 1]]]
          BY <2>1
        <5> HIDE DEF g, Eq
        <5> QED BY <3>2, <5>1
      <4>2. i # 0 => i - 1 \in 0..k
        BY <3>2
      <4> HIDE DEF g
      <4> QED BY <2>2, <3>2, <4>1, <4>2
    <3> QED BY <3>1, <3>2
  <2>5. g = [i \in 0..(k + 1) |-> IF i = 0 THEN base ELSE step[i][g[i - 1]]]
    <3>1. g = [i \in 0..(k + 1) |-> g[i]]
      OBVIOUS
    <3> HIDE DEF g
    <3> QED BY <2>4, <3>1
  <2>6. \A i \in 0..(k + 1) : g[i] \in T[i]
    <3>1. f[k] \in T[k]
      BY <2>1
    <3>2. k + 1 \in 1..n /\ (k + 1) - 1 = k
      BY <1>2
    <3>3. step[k + 1][f[k]] \in T[k + 1]
      BY <3>1, <3>2 DEF RecursionHyp
    <3>4. \A i \in 0..k : f[i] \in T[i]
      BY <2>1
    <3> QED BY <2>2, <3>3, <3>4
  <2>7. Eq(g, k + 1)
    BY <2>5, <2>6
  <2> HIDE DEF Eq, g
  <2> QED BY <2>7
<1>3. \A k \in 0..n : k \in S
  <2> HIDE DEF S
  <2> QED BY <1>1, <1>2, InductionTo
<1> QED BY <1>3

-----------------------------------------------------------------------------
(* The elements of a sequence that are in a set.                           *)

(* What Only has kept of the first i elements.                             *)
Kept(f, s, S) ==
  /\ f[0] = <<>>
  /\ \A i \in 1..Len(s) : f[i] = IF s[i] \in S THEN Append(f[i - 1], s[i]) ELSE f[i - 1]

(* What Only keeps of a sequence, element by element.                      *)
LEMMA OnlyKept ==
  ASSUME NEW X, NEW s \in Seq(X), NEW S
  PROVE  \E f : /\ Kept(f, s, S) /\ Only(s, S) = f[Len(s)]
                /\ \A i \in 0..Len(s) : f[i] \in Seq(X)
<1> DEFINE n == Len(s)
           T == [i \in 0..n |-> Seq(X)]
           step == [i \in 1..n |-> [t \in Seq(X) |-> IF s[i] \in S THEN Append(t, s[i]) ELSE t]]
           Eq(f) == f = [i \in 0..n |-> IF i = 0 THEN <<>>
                           ELSE IF s[i] \in S THEN Append(f[i - 1], s[i]) ELSE f[i - 1]]
<1>1. n \in Nat /\ \A i \in 1..n : s[i] \in X
  OBVIOUS
<1>2. RecursionHyp(n, T, <<>>, step)
  <2>1. <<>> \in T[0]
    OBVIOUS
  <2>2. ASSUME NEW i \in 1..n, NEW t \in T[i - 1] PROVE step[i][t] \in T[i]
    <3>1. t \in Seq(X) /\ s[i] \in X /\ i \in 0..n
      BY <1>1
    <3>2. Append(t, s[i]) \in Seq(X)
      BY <3>1
    <3> QED BY <3>1, <3>2
  <2> HIDE DEF T, step, n
  <2> QED BY <2>1, <2>2 DEF RecursionHyp
<1>3. PICK f : /\ f = [i \in 0..n |-> IF i = 0 THEN <<>> ELSE step[i][f[i - 1]]]
               /\ \A i \in 0..n : f[i] \in T[i]
  <2> HIDE DEF T, step, n
  <2> QED BY <1>1, <1>2, RecursionExists
<1>4. \A i \in 0..n : f[i] \in Seq(X)
  BY <1>3
<1>5. Eq(f)
  <2>1. \A i \in 1..n : step[i][f[i - 1]] = IF s[i] \in S THEN Append(f[i - 1], s[i]) ELSE f[i - 1]
    <3> SUFFICES ASSUME NEW i \in 1..n
                 PROVE  step[i][f[i - 1]] = IF s[i] \in S THEN Append(f[i - 1], s[i]) ELSE f[i - 1]
      OBVIOUS
    <3>1. f[i - 1] \in Seq(X)
      <4>1. i - 1 \in 0..n
        OBVIOUS
      <4> QED BY <1>4, <4>1
    <3> HIDE DEF n
    <3> QED BY <3>1
  <2>2. \A i \in 0..n : i # 0 => i \in 1..n
    OBVIOUS
  <2> HIDE DEF step, n
  <2> QED BY <1>3, <2>1, <2>2
<1> DEFINE g == CHOOSE f_1 : Eq(f_1)
<1>6. Eq(g)
  <2> HIDE DEF Eq
  <2> QED BY <1>5
<1>7. Only(s, S) = g[n]
  BY DEF Only
<1>8. Kept(g, s, S)
  <2>1. g[0] = <<>>
    <3> HIDE DEF g
    <3> QED BY <1>6
  <2>2. ASSUME NEW i \in 1..Len(s)
        PROVE  g[i] = IF s[i] \in S THEN Append(g[i - 1], s[i]) ELSE g[i - 1]
    <3>1. i \in 0..n /\ i # 0
      BY <1>1
    <3> HIDE DEF g, n
    <3> QED BY <1>6, <3>1
  <2> HIDE DEF g
  <2> QED BY <2>1, <2>2 DEF Kept
<1>9. \A i \in 0..n : g[i] \in Seq(X)
  <2> DEFINE Good == {i \in 0..n : g[i] \in Seq(X)}
  <2>1. 0 \in Good
    <3>1. 0 \in 0..n /\ <<>> \in Seq(X)
      BY <1>1
    <3>2. g[0] = <<>>
      <4> HIDE DEF g
      <4> QED BY <1>8 DEF Kept
    <3> HIDE DEF g, n
    <3> QED BY <3>1, <3>2
  <2>2. ASSUME NEW i \in 0..n, i \in Good, i < n PROVE i + 1 \in Good
    <3>1. i + 1 \in 1..n /\ (i + 1) - 1 = i
      BY <2>2
    <3>2. g[i] \in Seq(X) /\ s[i + 1] \in X
      BY <1>1, <2>2, <3>1
    <3>3. g[i + 1] = IF s[i + 1] \in S THEN Append(g[i], s[i + 1]) ELSE g[i]
      <4> HIDE DEF g
      <4> QED BY <1>8, <3>1 DEF Kept
    <3>4. Append(g[i], s[i + 1]) \in Seq(X)
      <4> HIDE DEF g
      <4> QED BY <3>2
    <3>5. g[i + 1] \in Seq(X)
      <4> HIDE DEF g
      <4> QED BY <3>2, <3>3, <3>4
    <3> HIDE DEF g
    <3> QED BY <3>1, <3>5
  <2> HIDE DEF Good, n
  <2>3. \A i \in 0..n : i \in Good
    BY <1>1, <2>1, <2>2, InductionTo
  <2> QED BY <2>3 DEF Good
<1> HIDE DEF g
<1> QED BY <1>7, <1>8, <1>9

(* Where the elements of t are in s: from left to right, those in S.       *)
Places(p, s, S, t, k) ==
  /\ p \in [1..Len(t) -> 1..k]
  /\ \A i, j \in 1..Len(t) : i < j => p[i] < p[j]
  /\ \A i \in 1..Len(t) : t[i] = s[p[i]] /\ s[p[i]] \in S
  /\ \A a \in 1..k : s[a] \in S => \E i \in 1..Len(t) : p[i] = a

(* One more element: where what is kept comes from.                        *)
LEMMA PlacesStep ==
  ASSUME NEW X, NEW s \in Seq(X), NEW S, NEW t \in Seq(X), NEW p, NEW k \in 0..Len(s), k < Len(s),
         Places(p, s, S, t, k)
  PROVE  \E q : Places(q, s, S, IF s[k + 1] \in S THEN Append(t, s[k + 1]) ELSE t, k + 1)
<1>1. k + 1 \in 1..Len(s) /\ s[k + 1] \in X /\ k \in Nat /\ Len(t) \in Nat
  OBVIOUS
<1>2. CASE s[k + 1] \notin S
  <2>1. p \in [1..Len(t) -> 1..(k + 1)]
    BY <1>1 DEF Places
  <2>2. ASSUME NEW a \in 1..(k + 1), s[a] \in S PROVE \E i \in 1..Len(t) : p[i] = a
    <3>1. a \in 1..k
      BY <1>1, <1>2, <2>2
    <3> QED BY <2>2, <3>1 DEF Places
  <2>3. Places(p, s, S, t, k + 1)
    BY <2>1, <2>2 DEF Places
  <2> QED BY <1>2, <2>3
<1>3. CASE s[k + 1] \in S
  <2> DEFINE m == Len(t)
             u == Append(t, s[k + 1])
             q == [i \in 1..(m + 1) |-> IF i = m + 1 THEN k + 1 ELSE p[i]]
  <2>1. u \in Seq(X) /\ Len(u) = m + 1 /\ u[m + 1] = s[k + 1] /\ \A i \in 1..m : u[i] = t[i]
    BY <1>1
  <2>2. \A i \in 1..m : q[i] = p[i] /\ p[i] \in 1..k
    <3>1. p \in [1..m -> 1..k]
      BY DEF Places
    <3>2. \A i \in 1..m : i \in 1..(m + 1) /\ i # m + 1
      BY <1>1
    <3> HIDE DEF m
    <3> QED BY <3>1, <3>2
  <2>3. q[m + 1] = k + 1
    OBVIOUS
  <2>4. \A i \in 1..(m + 1) : i = m + 1 \/ i \in 1..m
    OBVIOUS
  <2>5. q \in [1..Len(u) -> 1..(k + 1)]
    <3>1. \A i \in 1..(m + 1) : q[i] \in 1..(k + 1)
      <4> HIDE DEF q, u, m
      <4> QED BY <1>1, <2>2, <2>3, <2>4
    <3>2. q = [i \in 1..(m + 1) |-> q[i]]
      OBVIOUS
    <3> HIDE DEF q, u, m
    <3> QED BY <2>1, <3>1, <3>2
  <2>6. ASSUME NEW i \in 1..Len(u), NEW j \in 1..Len(u), i < j PROVE q[i] < q[j]
    <3>1. i \in 1..m
      BY <2>1, <2>6, <1>1
    <3>2. CASE j = m + 1
      <4> HIDE DEF q, u, m
      <4> QED BY <1>1, <2>2, <2>3, <3>1, <3>2
    <3>3. CASE j \in 1..m
      <4>1. p[i] < p[j]
        BY <2>6, <3>1, <3>3 DEF Places
      <4> HIDE DEF q, u, m
      <4> QED BY <2>2, <3>1, <3>3, <4>1
    <3> HIDE DEF q, u, m
    <3> QED BY <2>1, <2>4, <3>2, <3>3
  <2>7. ASSUME NEW i \in 1..Len(u) PROVE u[i] = s[q[i]] /\ s[q[i]] \in S
    <3>1. CASE i = m + 1
      <4> HIDE DEF q, u, m
      <4> QED BY <1>3, <2>1, <2>3, <3>1
    <3>2. CASE i \in 1..m
      <4>1. t[i] = s[p[i]] /\ s[p[i]] \in S
        BY <3>2 DEF Places
      <4> HIDE DEF q, u, m
      <4> QED BY <2>1, <2>2, <3>2, <4>1
    <3> HIDE DEF q, u, m
    <3> QED BY <2>1, <2>4, <3>1, <3>2
  <2>8. ASSUME NEW a \in 1..(k + 1), s[a] \in S PROVE \E i \in 1..Len(u) : q[i] = a
    <3>1. CASE a = k + 1
      <4>1. m + 1 \in 1..Len(u)
        BY <1>1, <2>1
      <4> HIDE DEF q, u, m
      <4> QED BY <2>3, <3>1, <4>1
    <3>2. CASE a \in 1..k
      <4>1. PICK i \in 1..m : p[i] = a
        BY <2>8, <3>2 DEF Places
      <4>2. i \in 1..Len(u)
        BY <1>1, <2>1
      <4> HIDE DEF q, u, m
      <4> QED BY <2>2, <4>1, <4>2
    <3> QED BY <1>1, <3>1, <3>2
  <2> HIDE DEF q, u, m
  <2>9. Places(q, s, S, u, k + 1)
    BY <2>5, <2>6, <2>7, <2>8 DEF Places
  <2>10. u = IF s[k + 1] \in S THEN Append(t, s[k + 1]) ELSE t
    BY <1>3 DEF u
  <2> QED BY <2>9, <2>10
<1> QED BY <1>2, <1>3

(* Only keeps the elements that are in the set, in their order.            *)
LEMMA OnlyIs ==
  ASSUME NEW X, NEW s \in Seq(X), NEW S
  PROVE  /\ Only(s, S) \in Seq(X)
         /\ \E p : Places(p, s, S, Only(s, S), Len(s))
<1>1. PICK f : /\ Kept(f, s, S) /\ Only(s, S) = f[Len(s)]
               /\ \A i \in 0..Len(s) : f[i] \in Seq(X)
  BY OnlyKept
<1> DEFINE G == {i \in 0..Len(s) : \E p : Places(p, s, S, f[i], i)}
<1>2. 0 \in G
  <2>1. f[0] = <<>>
    BY <1>1 DEF Kept
  <2> DEFINE p == [i \in {} |-> 0]
  <2>2. Places(p, s, S, <<>>, 0)
    BY DEF Places
  <2> HIDE DEF p
  <2>3. Len(s) \in Nat
    OBVIOUS
  <2>4. \E p_1 : Places(p_1, s, S, f[0], 0)
    BY <2>1, <2>2
  <2> QED BY <2>3, <2>4
<1>3. ASSUME NEW i \in 0..Len(s), i \in G, i < Len(s) PROVE i + 1 \in G
  <2>1. PICK p : Places(p, s, S, f[i], i)
    BY <1>3
  <2>2. i + 1 \in 1..Len(s) /\ (i + 1) - 1 = i
    BY <1>3
  <2>3. f[i + 1] = IF s[i + 1] \in S THEN Append(f[i], s[i + 1]) ELSE f[i]
    BY <1>1, <2>2 DEF Kept
  <2>4. f[i] \in Seq(X)
    BY <1>1
  <2>5. \E q : Places(q, s, S, f[i + 1], i + 1)
    BY <1>3, <2>1, <2>3, <2>4, PlacesStep
  <2> QED BY <2>2, <2>5
<1>4. \A i \in 0..Len(s) : i \in G
  <2>1. Len(s) \in Nat
    OBVIOUS
  <2> HIDE DEF G
  <2> QED BY <1>2, <1>3, <2>1, InductionTo
<1>5. Len(s) \in G
  BY <1>4
<1> QED BY <1>1, <1>5

(* Only keeps those elements of a sequence that are in the set.            *)
LEMMA OnlyElements ==
  ASSUME NEW X, NEW s \in Seq(X), NEW S
  PROVE  /\ Only(s, S) \in Seq(X)
         /\ ToSet(Only(s, S)) = ToSet(s) \cap S
<1> DEFINE t == Only(s, S)
<1>1. t \in Seq(X) /\ \E p : Places(p, s, S, t, Len(s))
  BY OnlyIs
<1> HIDE DEF t
<1>2. PICK p : Places(p, s, S, t, Len(s))
  BY <1>1
<1>3. ToSet(t) = {t[i] : i \in 1..Len(t)} /\ ToSet(s) = {s[i] : i \in 1..Len(s)}
  BY <1>1 DEF ToSet
<1>4. \A x \in ToSet(t) : x \in ToSet(s) /\ x \in S
  BY <1>2, <1>3 DEF Places
<1>5. \A x \in ToSet(s) : x \in S => x \in ToSet(t)
  BY <1>2, <1>3 DEF Places
<1> QED BY <1>1, <1>4, <1>5 DEF t

-----------------------------------------------------------------------------
(* Folds.  A fold over a sequence is a function of the sets of its         *)
(* positions; T gives for each set what is known of the result.            *)

FoldHyp(n, T, base, step) ==
  /\ base \in T[{}]
  /\ \A A \in SUBSET (1..n) : A # {} =>
        \A t \in T[A \ {Max(A)}] : step[Max(A)][t] \in T[A]

(* The last position of a set of positions.                                *)
LEMMA MaxOf ==
  ASSUME NEW n \in Nat, NEW A \in SUBSET (1..n), A # {}
  PROVE  Max(A) \in A /\ Max(A) \in 1..n /\ \A y \in A : y <= Max(A)
<1>1. A \in SUBSET Nat /\ \A x \in A : x <= n
  OBVIOUS
<1>2. Max(A) \in A /\ \A y \in A : y <= Max(A)
  BY <1>1, MaxIs
<1> QED BY <1>2

(* What a step keeps is true of all results.                               *)
FoldKept(n, T, f) ==
  /\ f[{}] \in T[{}]
  /\ \A A \in SUBSET (1..n) : (A # {} /\ f[A \ {Max(A)}] \in T[A \ {Max(A)}]) => f[A] \in T[A]

(* So it is true of the result for every set of positions.                 *)
LEMMA FoldIn ==
  ASSUME NEW n \in Nat, NEW T, NEW f, FoldKept(n, T, f)
  PROVE  \A A \in SUBSET (1..n) : f[A] \in T[A]
<1> DEFINE S == {k \in Nat : \A A \in SUBSET (1..k) : A \in SUBSET (1..n) => f[A] \in T[A]}
<1>1. 0 \in S
  <2>1. \A A \in SUBSET (1..0) : A = {}
    OBVIOUS
  <2> QED BY <2>1 DEF FoldKept
<1>2. ASSUME NEW k \in Nat, k \in S PROVE k + 1 \in S
  <2> SUFFICES ASSUME NEW A \in SUBSET (1..(k + 1)), A \in SUBSET (1..n) PROVE f[A] \in T[A]
    OBVIOUS
  <2>1. CASE A = {}
    BY <2>1 DEF FoldKept
  <2>2. CASE A # {}
    <3>1. Max(A) \in A /\ \A y \in A : y <= Max(A)
      BY <2>2, MaxOf
    <3>2. A \ {Max(A)} \in SUBSET (1..k) /\ A \ {Max(A)} \in SUBSET (1..n)
      <4>1. ASSUME NEW y \in A \ {Max(A)} PROVE y \in 1..k
        <5>1. y <= Max(A) /\ y # Max(A) /\ y \in 1..(k + 1) /\ Max(A) \in 1..(k + 1)
          BY <3>1
        <5> QED BY <5>1
      <4> QED BY <4>1
    <3>3. f[A \ {Max(A)}] \in T[A \ {Max(A)}]
      BY <1>2, <3>2
    <3> QED BY <2>2, <3>3 DEF FoldKept
  <2> QED BY <2>1, <2>2
<1>3. \A k \in Nat : k \in S
  <2> HIDE DEF S
  <2> QED BY <1>1, <1>2, Induction
<1>4. n \in S
  BY <1>3
<1> QED BY <1>4

(* The function that a fold is.                                            *)
FoldFun(n, base, step, f) ==
  f = [A \in SUBSET (1..n) |-> IF A = {} THEN base ELSE step[Max(A)][f[A \ {Max(A)}]]]

(* The function exists, and its values are where the steps lead.           *)
LEMMA FoldExists ==
  ASSUME NEW n \in Nat, NEW T, NEW base, NEW step, FoldHyp(n, T, base, step)
  PROVE  \E f : FoldFun(n, base, step, f) /\ \A A \in SUBSET (1..n) : f[A] \in T[A]
<1> DEFINE Eq(f, k) == f = [A \in SUBSET (1..k) |->
                              IF A = {} THEN base ELSE step[Max(A)][f[A \ {Max(A)}]]]
           S == {k \in Nat : \E f : Eq(f, k)}
<1>1. 0 \in S
  <2> DEFINE f0 == [A \in SUBSET (1..0) |-> base]
  <2>1. \A A \in SUBSET (1..0) : A = {}
    OBVIOUS
  <2>2. Eq(f0, 0)
    BY <2>1
  <2> HIDE DEF f0, Eq
  <2> QED BY <2>2
<1>2. ASSUME NEW k \in Nat, k \in S PROVE k + 1 \in S
  <2>1. PICK f : Eq(f, k)
    BY <1>2
  <2> DEFINE g == [A \in SUBSET (1..(k + 1)) |->
                     IF k + 1 \in A THEN step[k + 1][f[A \ {k + 1}]] ELSE f[A]]
             Step(h, A) == IF A = {} THEN base ELSE step[Max(A)][h[A \ {Max(A)}]]
  <2>2. ASSUME NEW A \in SUBSET (1..k) PROVE g[A] = f[A]
    <3>1. A \in SUBSET (1..(k + 1)) /\ k + 1 \notin A
      OBVIOUS
    <3> QED BY <3>1
  <2>3. ASSUME NEW A \in SUBSET (1..(k + 1)) PROVE g[A] = Step(g, A)
    <3>1. CASE k + 1 \in A
      <4>1. Max(A) \in A /\ Max(A) \in 1..(k + 1) /\ \A y \in A : y <= Max(A)
        BY <3>1, MaxOf
      <4>2. Max(A) = k + 1
        BY <3>1, <4>1
      <4>3. A \ {k + 1} \in SUBSET (1..k)
        <5>1. ASSUME NEW y \in A \ {k + 1} PROVE y \in 1..k
          <6>1. y \in 1..(k + 1) /\ y # k + 1
            OBVIOUS
          <6> QED BY <6>1
        <5> QED BY <5>1
      <4>4. g[A] = step[k + 1][f[A \ {k + 1}]]
        BY <3>1
      <4> HIDE DEF g, Eq
      <4> QED BY <2>2, <3>1, <4>2, <4>3, <4>4
    <3>2. CASE k + 1 \notin A
      <4>1. A \in SUBSET (1..k)
        <5>1. ASSUME NEW y \in A PROVE y \in 1..k
          <6>1. y \in 1..(k + 1) /\ y # k + 1
            BY <3>2
          <6> QED BY <6>1
        <5> QED BY <5>1
      <4>2. f[A] = Step(f, A)
        <5>1. f = [B \in SUBSET (1..k) |-> Step(f, B)]
          BY <2>1
        <5> HIDE DEF g, Eq, Step
        <5> QED BY <4>1, <5>1
      <4>3. A \ {Max(A)} \in SUBSET (1..k)
        BY <4>1
      <4>4. g[A] = f[A] /\ g[A \ {Max(A)}] = f[A \ {Max(A)}]
        BY <2>2, <4>1, <4>3
      <4> HIDE DEF g, Eq
      <4> QED BY <4>2, <4>4
    <3> QED BY <3>1, <3>2
  <2>4. Eq(g, k + 1)
    <3>1. g = [A \in SUBSET (1..(k + 1)) |-> g[A]]
      OBVIOUS
    <3>2. g = [A \in SUBSET (1..(k + 1)) |-> Step(g, A)]
      <4> HIDE DEF g, Step
      <4> QED BY <2>3, <3>1
    <3> HIDE DEF g
    <3> QED BY <3>2
  <2> HIDE DEF g, Eq
  <2> QED BY <2>4
<1>3. \A k \in Nat : k \in S
  <2> HIDE DEF S
  <2> QED BY <1>1, <1>2, Induction
<1>4. PICK f : Eq(f, n)
  BY <1>3
<1>5. FoldKept(n, T, f)
  <2> DEFINE Step(A) == IF A = {} THEN base ELSE step[Max(A)][f[A \ {Max(A)}]]
  <2>1. f = [A \in SUBSET (1..n) |-> Step(A)]
    BY <1>4
  <2>2. \A A \in SUBSET (1..n) : f[A] = Step(A)
    <3> HIDE DEF Eq, Step
    <3> QED BY <2>1
  <2>3. f[{}] = base
    BY <2>2
  <2>4. \A A \in SUBSET (1..n) : A # {} => f[A] = step[Max(A)][f[A \ {Max(A)}]]
    BY <2>2
  <2> HIDE DEF Eq, Step
  <2> QED BY <2>3, <2>4 DEF FoldKept, FoldHyp
<1>6. \A A \in SUBSET (1..n) : f[A] \in T[A]
  <2> HIDE DEF Eq
  <2> QED BY <1>5, FoldIn
<1>7. FoldFun(n, base, step, f)
  BY <1>4 DEF FoldFun
<1> QED BY <1>6, <1>7

(* Folds whose step is to apply the function that v has for the element.   *)
FoldOf(v, base, s) == FoldLeft(LAMBDA r, m : v[m][r], base, s)

(* FoldLeft with a function for each element is such a fold.               *)
LEMMA FoldOfFunctions ==
  ASSUME NEW E, NEW s \in Seq(E), NEW v, NEW base, NEW T,
         FoldHyp(Len(s), T, base, [i \in 1..Len(s) |-> v[s[i]]])
  PROVE  FoldOf(v, base, s) \in T[1..Len(s)]
<1> DEFINE n == Len(s)
           step == [i \in 1..n |-> v[s[i]]]
           Eq(f) == f = [A \in SUBSET (DOMAIN s) |->
                           IF A = {} THEN base ELSE v[s[Max(A)]][f[A \ {Max(A)}]]]
           g == CHOOSE f : Eq(f)
<1>1. n \in Nat /\ DOMAIN s = 1..n
  OBVIOUS
<1>2. FoldOf(v, base, s) = g[DOMAIN s]
  BY DEF FoldOf, FoldLeft, MapThenFoldSet
<1>3. FoldHyp(n, T, base, step)
  OBVIOUS
<1>4. PICK f : FoldFun(n, base, step, f) /\ \A A \in SUBSET (1..n) : f[A] \in T[A]
  <2> HIDE DEF n, step
  <2> QED BY <1>1, <1>3, FoldExists
<1>5. \A A \in SUBSET (1..n) : A # {} => step[Max(A)] = v[s[Max(A)]]
  <2> SUFFICES ASSUME NEW A \in SUBSET (1..n), A # {} PROVE step[Max(A)] = v[s[Max(A)]]
    OBVIOUS
  <2>1. Max(A) \in 1..n
    <3> HIDE DEF n
    <3> QED BY <1>1, MaxOf
  <2> QED BY <2>1
<1>6. Eq(f)
  <2> HIDE DEF step, n
  <2> QED BY <1>1, <1>4, <1>5 DEF FoldFun
<1>7. Eq(g)
  <2> HIDE DEF Eq
  <2> QED BY <1>6
<1>8. \A A \in SUBSET (1..n) :
         g[A] = IF A = {} THEN base ELSE v[s[Max(A)]][g[A \ {Max(A)}]]
  <2> HIDE DEF g, n
  <2> QED BY <1>1, <1>7
<1>9. FoldKept(n, T, g)
  <2>1. g[{}] = base
    <3> HIDE DEF g, n
    <3> QED BY <1>8
  <2>2. \A A \in SUBSET (1..n) : A # {} => g[A] = step[Max(A)][g[A \ {Max(A)}]]
    <3> HIDE DEF g, n, step
    <3> QED BY <1>5, <1>8
  <2> HIDE DEF g, n, step
  <2> QED BY <1>3, <2>1, <2>2 DEF FoldKept, FoldHyp
<1>10. g[1..n] \in T[1..n]
  <2> HIDE DEF g, n
  <2> QED BY <1>1, <1>9, FoldIn
<1> QED BY <1>1, <1>2, <1>10

(* Folds of which it is known what the first k steps do.                   *)
PrefixHyp(n, X, T, base, step) ==
  /\ base \in T[0]
  /\ \A k \in 0..n : T[k] \subseteq X
  /\ \A i \in 1..n : \A t \in X : step[i][t] \in X
  /\ \A i \in 1..n : \A t \in T[i - 1] : step[i][t] \in T[i]

UpTo(n, X, T) == [A \in SUBSET (1..n) |-> {t \in X : \A k \in 0..n : A = 1..k => t \in T[k]}]

(* What is known of the result when the first k steps are done, for all    *)
(* k.                                                                      *)
LEMMA PrefixFold ==
  ASSUME NEW n \in Nat, NEW X, NEW T, NEW base, NEW step, PrefixHyp(n, X, T, base, step)
  PROVE  /\ FoldHyp(n, UpTo(n, X, T), base, step)
         /\ UpTo(n, X, T)[1..n] \subseteq T[n]
<1> DEFINE U == UpTo(n, X, T)
<1>1. \A A \in SUBSET (1..n) : \A t : t \in U[A] <=> (t \in X /\ \A k \in 0..n : A = 1..k => t \in T[k])
  BY DEF UpTo
<1>2. base \in U[{}]
  <2>1. base \in X
    BY DEF PrefixHyp
  <2>2. ASSUME NEW k \in 0..n, {} = 1..k PROVE base \in T[k]
    <3>1. k = 0
      <4>1. k # 0 => 1 \in 1..k
        OBVIOUS
      <4> QED BY <2>2, <4>1
    <3> QED BY <3>1 DEF PrefixHyp
  <2> HIDE DEF U
  <2> QED BY <1>1, <2>1, <2>2
<1>3. ASSUME NEW A \in SUBSET (1..n), A # {}, NEW t \in U[A \ {Max(A)}]
      PROVE  step[Max(A)][t] \in U[A]
  <2>1. Max(A) \in A /\ Max(A) \in 1..n /\ \A y \in A : y <= Max(A)
    BY <1>3, MaxOf
  <2>2. A \ {Max(A)} \in SUBSET (1..n)
    OBVIOUS
  <2>3. t \in X
    <3> HIDE DEF U
    <3> QED BY <1>1, <1>3, <2>2
  <2>4. step[Max(A)][t] \in X
    BY <2>1, <2>3 DEF PrefixHyp
  <2>5. ASSUME NEW k \in 0..n, A = 1..k PROVE step[Max(A)][t] \in T[k]
    <3>1. k \in 1..n
      <4>1. k = 0 => 1..k = {}
        OBVIOUS
      <4> QED BY <1>3, <2>5, <4>1
    <3>2. k \in A
      BY <2>5, <3>1
    <3>3. Max(A) = k
      BY <2>1, <2>5, <3>1, <3>2
    <3>4. A \ {Max(A)} = 1..(k - 1)
      BY <2>5, <3>1, <3>3
    <3>5. k - 1 \in 0..n
      BY <3>1
    <3>6. t \in T[k - 1]
      <4> HIDE DEF U
      <4> QED BY <1>1, <1>3, <2>2, <3>4, <3>5
    <3> QED BY <3>1, <3>3, <3>6 DEF PrefixHyp
  <2> HIDE DEF U
  <2> QED BY <1>1, <2>4, <2>5
<1>4. U[1..n] \subseteq T[n]
  <2>1. n \in 0..n /\ 1..n \in SUBSET (1..n)
    OBVIOUS
  <2> HIDE DEF U
  <2> QED BY <1>1, <2>1
<1> HIDE DEF U
<1> QED BY <1>2, <1>3, <1>4 DEF FoldHyp, U

(* A fold depends on the functions of its elements alone.                  *)
LEMMA FoldAgrees ==
  ASSUME NEW E, NEW s \in Seq(E), NEW v, NEW w, NEW base, \A m \in ToSet(s) : v[m] = w[m]
  PROVE  FoldOf(v, base, s) = FoldOf(w, base, s)
<1> DEFINE n == Len(s)
           Eq(u, f) == f = [A \in SUBSET (DOMAIN s) |->
                           IF A = {} THEN base ELSE u[s[Max(A)]][f[A \ {Max(A)}]]]
<1>1. n \in Nat /\ DOMAIN s = 1..n
  OBVIOUS
<1>2. \A A \in SUBSET (DOMAIN s) : A # {} => v[s[Max(A)]] = w[s[Max(A)]]
  <2> SUFFICES ASSUME NEW A \in SUBSET (DOMAIN s), A # {} PROVE v[s[Max(A)]] = w[s[Max(A)]]
    OBVIOUS
  <2>1. Max(A) \in 1..n
    <3> HIDE DEF n
    <3> QED BY <1>1, MaxOf
  <2>2. s[Max(A)] \in ToSet(s)
    BY <1>1, <2>1 DEF ToSet
  <2> QED BY <2>2
<1>3. ASSUME NEW f PROVE Eq(v, f) <=> Eq(w, f)
  <2>1. [A \in SUBSET (DOMAIN s) |-> IF A = {} THEN base ELSE v[s[Max(A)]][f[A \ {Max(A)}]]]
        = [A \in SUBSET (DOMAIN s) |-> IF A = {} THEN base ELSE w[s[Max(A)]][f[A \ {Max(A)}]]]
    BY <1>2
  <2> QED BY <2>1
<1>4. (CHOOSE f : Eq(v, f)) = (CHOOSE f : Eq(w, f))
  <2> HIDE DEF Eq
  <2> QED BY <1>3
<1> QED BY <1>4 DEF FoldOf, FoldLeft, MapThenFoldSet

-----------------------------------------------------------------------------
(* Graphs.                                                                 *)

(* The elements of a sequence have a common bound.                         *)
LEMMA SeqBounded ==
  ASSUME NEW n \in Nat, NEW f \in [1..n -> Nat]
  PROVE  \E b \in Nat : \A i \in 1..n : f[i] <= b
<1> DEFINE S == {k \in 0..n : \E b \in Nat : \A i \in 1..k : f[i] <= b}
<1>1. 0 \in S
  OBVIOUS
<1>2. ASSUME NEW k \in 0..n, k \in S, k < n PROVE k + 1 \in S
  <2>1. PICK b \in Nat : \A i \in 1..k : f[i] <= b
    BY <1>2
  <2>2. f[k + 1] \in Nat /\ b + f[k + 1] \in Nat /\ k + 1 \in 0..n
    BY <1>2
  <2>3. \A i \in 1..(k + 1) : f[i] <= b + f[k + 1]
    <3> SUFFICES ASSUME NEW i \in 1..(k + 1) PROVE f[i] <= b + f[k + 1]
      OBVIOUS
    <3>1. CASE i = k + 1
      BY <2>2, <3>1
    <3>2. CASE i \in 1..k
      <4>1. f[i] \in Nat /\ f[i] <= b
        BY <2>1, <3>2, <1>2
      <4> QED BY <2>2, <4>1
    <3> QED BY <3>1, <3>2
  <2> QED BY <2>2, <2>3
<1>3. \A k \in 0..n : k \in S
  <2> HIDE DEF S
  <2> QED BY <1>1, <1>2, InductionTo
<1>4. n \in 0..n
  OBVIOUS
<1>5. n \in S
  <2> HIDE DEF S
  <2> QED BY <1>3, <1>4
<1> QED BY <1>5

(* What sorting needs of a graph.                                          *)
Dag(g) ==
  /\ g.nodes \in Seq(Names)
  /\ DOMAIN g.node = ToSet(g.nodes)
  /\ g.operands \in [ToSet(g.nodes) -> Seq(ToSet(g.nodes))]
  /\ Numbered(g)

(* The numbers of the nodes are naturals with a bound.                     *)
LEMMA DagNumbers ==
  ASSUME NEW g, Dag(g)
  PROVE  /\ \A n \in ToSet(g.nodes) : n \in Names /\ n[1] \in Nat
         /\ \E b \in Nat : \A n \in ToSet(g.nodes) : n[1] <= b
<1>1. g.nodes \in Seq(Names) /\ ToSet(g.nodes) = {g.nodes[i] : i \in 1..Len(g.nodes)}
  BY DEF Dag, ToSet
<1>2. \A n \in Names : n[1] \in Nat
  BY DEF Names
<1>3. \A i \in 1..Len(g.nodes) : g.nodes[i] \in Names
  BY <1>1
<1>4. \A n \in ToSet(g.nodes) : n \in Names /\ n[1] \in Nat
  BY <1>1, <1>2, <1>3
<1> DEFINE f == [i \in 1..Len(g.nodes) |-> g.nodes[i][1]]
<1>5. f \in [1..Len(g.nodes) -> Nat] /\ Len(g.nodes) \in Nat
  BY <1>1, <1>2, <1>3
<1>6. PICK b \in Nat : \A i \in 1..Len(g.nodes) : f[i] <= b
  <2> HIDE DEF f
  <2> QED BY <1>5, SeqBounded
<1>7. \A n \in ToSet(g.nodes) : n[1] <= b
  BY <1>1, <1>6
<1> QED BY <1>4, <1>7

(* The operands of a node are nodes with lower numbers.                    *)
LEMMA DagOperands ==
  ASSUME NEW g, Dag(g), NEW n \in ToSet(g.nodes)
  PROVE  /\ g.operands[n] \in Seq(ToSet(g.nodes))
         /\ \A m \in ToSet(g.operands[n]) : m \in ToSet(g.nodes) /\ m[1] < n[1]
         /\ \A i \in 1..Len(g.operands[n]) : /\ g.operands[n][i] \in ToSet(g.operands[n])
                                             /\ g.operands[n][i] \in ToSet(g.nodes)
                                             /\ g.operands[n][i][1] < n[1]
<1>1. g.operands[n] \in Seq(ToSet(g.nodes)) /\ n \in DOMAIN g.node
  BY DEF Dag
<1>2. ToSet(g.operands[n]) = {g.operands[n][i] : i \in 1..Len(g.operands[n])}
      /\ DOMAIN g.operands[n] = 1..Len(g.operands[n])
  BY <1>1 DEF ToSet
<1>3. \A i \in 1..Len(g.operands[n]) : g.operands[n][i] \in ToSet(g.nodes)
  BY <1>1
<1>4. \A i \in 1..Len(g.operands[n]) : g.operands[n][i][1] < n[1]
  BY <1>1, <1>2 DEF Dag, Numbered
<1> QED BY <1>1, <1>2, <1>3, <1>4

(* What a visit of n with the functions v of its operands does.            *)
Visiting(g, v, n) ==
  [result \in Seq(ToSet(g.nodes)) |->
     IF n \in ToSet(result) THEN result
     ELSE Append(FoldOf(v, result, g.operands[n]), n)]

VisitEq(g, v, D) == v = [n \in D |-> Visiting(g, v, n)]

(* Visiting a node depends on the visits of its operands only.             *)
LEMMA VisitingAgrees ==
  ASSUME NEW g, Dag(g), NEW n \in ToSet(g.nodes), NEW v, NEW w,
         \A m \in ToSet(g.operands[n]) : v[m] = w[m]
  PROVE  Visiting(g, v, n) = Visiting(g, w, n)
<1>1. g.operands[n] \in Seq(ToSet(g.nodes))
  BY DagOperands
<1>2. \A result : FoldOf(v, result, g.operands[n]) = FoldOf(w, result, g.operands[n])
  BY <1>1, FoldAgrees
<1> QED BY <1>2 DEF Visiting

(* The function that VisitNode defines exists.                             *)
LEMMA VisitExists ==
  ASSUME NEW g, Dag(g)
  PROVE  \E v : VisitEq(g, v, ToSet(g.nodes))
<1> DEFINE N == ToSet(g.nodes)
           Below(k) == {n \in N : n[1] < k}
           S == {k \in Nat : \E v : VisitEq(g, v, Below(k))}
<1>1. \A n \in N : n[1] \in Nat
  BY DagNumbers
<1>2. 0 \in S
  <2>1. Below(0) = {}
    BY <1>1
  <2> DEFINE v0 == [n \in {} |-> 0]
  <2>2. VisitEq(g, v0, {})
    BY DEF VisitEq
  <2> HIDE DEF v0
  <2> QED BY <2>1, <2>2
<1>3. ASSUME NEW k \in Nat, k \in S PROVE k + 1 \in S
  <2>1. PICK v : VisitEq(g, v, Below(k))
    BY <1>3
  <2> DEFINE w == [n \in Below(k + 1) |-> Visiting(g, v, n)]
  <2>2. \A n \in Below(k) : n \in Below(k + 1)
    BY <1>1
  <2>3. \A n \in Below(k) : v[n] = Visiting(g, v, n)
    <3> HIDE DEF Below
    <3> QED BY <2>1 DEF VisitEq
  <2>4. \A n \in Below(k) : w[n] = v[n]
    <3> HIDE DEF Below
    <3> QED BY <2>2, <2>3
  <2>5. ASSUME NEW n \in Below(k + 1) PROVE Visiting(g, v, n) = Visiting(g, w, n)
    <3>1. n \in N /\ \A m \in ToSet(g.operands[n]) : m \in N /\ m[1] < n[1]
      BY DagOperands
    <3>2. \A m \in ToSet(g.operands[n]) : m \in Below(k)
      <4> SUFFICES ASSUME NEW m \in ToSet(g.operands[n]) PROVE m \in Below(k)
        OBVIOUS
      <4>1. m \in N /\ m[1] < n[1] /\ n[1] < k + 1 /\ m[1] \in Nat /\ n[1] \in Nat
        BY <1>1, <3>1
      <4> QED BY <4>1
    <3>3. \A m \in ToSet(g.operands[n]) : v[m] = w[m]
      <4> HIDE DEF Below, w
      <4> QED BY <2>4, <3>2
    <3> HIDE DEF w
    <3> QED BY <3>1, <3>3, VisitingAgrees
  <2>6. VisitEq(g, w, Below(k + 1))
    <3>1. w = [n \in Below(k + 1) |-> Visiting(g, v, n)]
      OBVIOUS
    <3>2. w = [n \in Below(k + 1) |-> Visiting(g, w, n)]
      <4> HIDE DEF w, Below
      <4> QED BY <2>5, <3>1
    <3> HIDE DEF w, Below
    <3> QED BY <3>2 DEF VisitEq
  <2> HIDE DEF w, Below
  <2> QED BY <2>6
<1>4. \A k \in Nat : k \in S
  <2> HIDE DEF S
  <2> QED BY <1>2, <1>3, Induction
<1>5. PICK b \in Nat : \A n \in N : n[1] <= b
  BY DagNumbers
<1>6. Below(b + 1) = N
  BY <1>1, <1>5
<1>7. b + 1 \in S
  <2>1. b + 1 \in Nat
    OBVIOUS
  <2> HIDE DEF S
  <2> QED BY <1>4, <2>1
<1> QED BY <1>6, <1>7

(* VisitNode visits every node by its definition.                          *)
LEMMA VisitNodeIs ==
  ASSUME NEW g, Dag(g)
  PROVE  VisitEq(g, VisitNode(g), ToSet(g.nodes))
<1>1. \E v : VisitEq(g, v, ToSet(g.nodes))
  BY VisitExists
<1>2. VisitNode(g) = CHOOSE v : VisitEq(g, v, ToSet(g.nodes))
  <2>1. DOMAIN g.node = ToSet(g.nodes)
    BY DEF Dag
  <2>2. VisitNode(g) = CHOOSE visit : visit = [n \in ToSet(g.nodes) |->
            [result \in Seq(ToSet(g.nodes)) |->
                IF n \in ToSet(result) THEN result
                ELSE Append(FoldLeft(LAMBDA r, m : visit[m][r], result, g.operands[n]), n)]]
    BY <2>1 DEF VisitNode
  <2> QED BY <2>2 DEF VisitEq, Visiting, FoldOf
<1> QED BY <1>1, <1>2

(* Each node once, after its operands.                                     *)
Sorted(g, r) ==
  /\ \A i, j \in 1..Len(r) : r[i] = r[j] => i = j
  /\ \A i \in 1..Len(r) : \A m \in ToSet(g.operands[r[i]]) : \E j \in 1..Len(r) : j < i /\ r[j] = m

(* The result q of visiting n after r: r stays, and what is new is n or of *)
(* a lower number.                                                         *)
Visited(g, n, r, q) ==
  /\ Sorted(g, q)
  /\ ToSet(r) \subseteq ToSet(q)
  /\ n \in ToSet(q)
  /\ \A x \in ToSet(q) : x \in ToSet(r) \/ x[1] <= n[1]

VisitGood(g, v, n) ==
  \A r \in Seq(ToSet(g.nodes)) : /\ v[n][r] \in Seq(ToSet(g.nodes))
                                 /\ Sorted(g, r) => Visited(g, n, r, v[n][r])

(* What is known of the result when the first k operands are visited.      *)
OperandsVisited(g, n, r, k) ==
  {q \in Seq(ToSet(g.nodes)) : Sorted(g, r) =>
     /\ Sorted(g, q)
     /\ ToSet(r) \subseteq ToSet(q)
     /\ \A i \in 1..k : g.operands[n][i] \in ToSet(q)
     /\ \A x \in ToSet(q) : x \in ToSet(r) \/ x[1] < n[1]}

(* All operands are visited, and the result stays sorted.                  *)
LEMMA VisitOperands ==
  ASSUME NEW g, Dag(g), NEW n \in ToSet(g.nodes), NEW v, NEW r \in Seq(ToSet(g.nodes)),
         \A m \in ToSet(g.operands[n]) : VisitGood(g, v, m)
  PROVE  FoldOf(v, r, g.operands[n]) \in OperandsVisited(g, n, r, Len(g.operands[n]))
<1> DEFINE N == ToSet(g.nodes)
           s == g.operands[n]
           L == Len(s)
           T == [k \in 0..L |-> OperandsVisited(g, n, r, k)]
           step == [i \in 1..L |-> v[s[i]]]
<1>1. /\ s \in Seq(N) /\ L \in Nat
      /\ \A i \in 1..L : s[i] \in ToSet(s) /\ s[i] \in N /\ s[i][1] < n[1]
  <2>1. s \in Seq(N)
    BY DagOperands
  <2> QED BY <2>1, DagOperands
<1>2. \A m \in N : m[1] \in Nat
  BY DagNumbers
<1>3. r \in T[0]
  <2>1. r \in OperandsVisited(g, n, r, 0)
    BY DEF OperandsVisited
  <2> QED BY <1>1, <2>1
<1>4. \A k \in 0..L : T[k] \subseteq Seq(N)
  BY DEF OperandsVisited
<1>5. ASSUME NEW i \in 1..L, NEW t \in Seq(N) PROVE step[i][t] \in Seq(N)
  <2>1. VisitGood(g, v, s[i])
    <3> HIDE DEF s, L
    <3> QED BY <1>1 DEF s
  <2>2. v[s[i]][t] \in Seq(N)
    BY <2>1 DEF VisitGood
  <2> QED BY <2>2
<1>6. ASSUME NEW i \in 1..L, NEW t \in T[i - 1] PROVE step[i][t] \in T[i]
  <2>1. i - 1 \in 0..L /\ i \in 0..L
    BY <1>1
  <2>2. t \in OperandsVisited(g, n, r, i - 1) /\ t \in Seq(N)
    BY <1>4, <2>1
  <2> DEFINE q == v[s[i]][t]
  <2>3. VisitGood(g, v, s[i])
    <3> HIDE DEF s, L
    <3> QED BY <1>1 DEF s
  <2>4. q \in Seq(N) /\ (Sorted(g, t) => Visited(g, s[i], t, q))
    BY <2>2, <2>3 DEF VisitGood
  <2>5. ASSUME Sorted(g, r)
        PROVE  /\ Sorted(g, q) /\ ToSet(r) \subseteq ToSet(q)
               /\ \A j \in 1..i : s[j] \in ToSet(q)
               /\ \A x \in ToSet(q) : x \in ToSet(r) \/ x[1] < n[1]
    <3>1. /\ Sorted(g, t) /\ ToSet(r) \subseteq ToSet(t)
          /\ \A j \in 1..(i - 1) : s[j] \in ToSet(t)
          /\ \A x \in ToSet(t) : x \in ToSet(r) \/ x[1] < n[1]
      BY <2>2, <2>5 DEF OperandsVisited
    <3>2. Visited(g, s[i], t, q)
      BY <2>4, <3>1
    <3>3. /\ Sorted(g, q) /\ ToSet(t) \subseteq ToSet(q) /\ s[i] \in ToSet(q)
          /\ \A x \in ToSet(q) : x \in ToSet(t) \/ x[1] <= s[i][1]
      BY <3>2 DEF Visited
    <3>4. ASSUME NEW x \in ToSet(q) PROVE x \in ToSet(r) \/ x[1] < n[1]
      <4>1. CASE x \in ToSet(t)
        BY <3>1, <4>1
      <4>2. CASE x[1] <= s[i][1]
        <5>1. s[i][1] < n[1] /\ s[i][1] \in Nat /\ n[1] \in Nat
          BY <1>1, <1>2
        <5>2. x \in N
          <6>1. q \in Seq(N)
            BY <2>4
          <6> HIDE DEF q
          <6> QED BY <6>1 DEF ToSet
        <5>3. x[1] \in Nat
          BY <1>2, <5>2
        <5> QED BY <4>2, <5>1, <5>3
      <4> QED BY <3>3, <4>1, <4>2
    <3>5. ASSUME NEW j \in 1..i PROVE s[j] \in ToSet(q)
      <4>1. CASE j = i
        BY <3>3, <4>1
      <4>2. CASE j \in 1..(i - 1)
        BY <3>1, <3>3, <4>2
      <4>3. j = i \/ j \in 1..(i - 1)
        OBVIOUS
      <4> QED BY <4>1, <4>2, <4>3
    <3> HIDE DEF q
    <3> QED BY <3>1, <3>3, <3>4, <3>5
  <2>6. q \in OperandsVisited(g, n, r, i)
    <3> HIDE DEF q
    <3> QED BY <2>4, <2>5 DEF OperandsVisited
  <2> HIDE DEF L, s
  <2> QED BY <2>1, <2>6
<1>7. PrefixHyp(L, Seq(N), T, r, step)
  <2> HIDE DEF T, step, L, N
  <2> QED BY <1>3, <1>4, <1>5, <1>6 DEF PrefixHyp
<1>8. /\ FoldHyp(L, UpTo(L, Seq(N), T), r, step)
      /\ UpTo(L, Seq(N), T)[1..L] \subseteq T[L]
  <2> HIDE DEF T, step, L, N
  <2> QED BY <1>1, <1>7, PrefixFold
<1>9. FoldOf(v, r, s) \in UpTo(L, Seq(N), T)[1..L]
  <2> DEFINE U == UpTo(L, Seq(N), T)
  <2>1. FoldHyp(Len(s), U, r, [i \in 1..Len(s) |-> v[s[i]]])
    BY <1>8
  <2> HIDE DEF U, s, N
  <2>2. FoldOf(v, r, s) \in U[1..Len(s)]
    BY <1>1, <2>1, FoldOfFunctions
  <2> QED BY <2>2 DEF U
<1>10. L \in 0..L
  BY <1>1
<1> QED BY <1>8, <1>9, <1>10

(* Appending a node whose operands are there keeps the order.              *)
LEMMA SortedAppend ==
  ASSUME NEW g, NEW N, NEW q \in Seq(N), NEW n \in N, Sorted(g, q), n \notin ToSet(q),
         \A m \in ToSet(g.operands[n]) : m \in ToSet(q)
  PROVE  /\ Append(q, n) \in Seq(N) /\ Sorted(g, Append(q, n))
         /\ ToSet(Append(q, n)) = ToSet(q) \cup {n}
<1> DEFINE u == Append(q, n)
           k == Len(q)
<1>1. /\ k \in Nat /\ u \in Seq(N) /\ Len(u) = k + 1 /\ u[k + 1] = n
      /\ \A i \in 1..k : u[i] = q[i]
      /\ \A i \in 1..(k + 1) : i = k + 1 \/ i \in 1..k
      /\ \A i \in 1..k : i \in 1..(k + 1) /\ i < k + 1
  OBVIOUS
<1>2. ToSet(q) = {q[i] : i \in 1..k} /\ ToSet(u) = {u[i] : i \in 1..(k + 1)}
  BY DEF ToSet
<1> HIDE DEF u, k
<1>3. ToSet(u) = ToSet(q) \cup {n}
  <2>1. \A x \in ToSet(u) : x \in ToSet(q) \cup {n}
    BY <1>1, <1>2
  <2>2. \A x \in ToSet(q) : x \in ToSet(u)
    BY <1>1, <1>2
  <2>3. n \in ToSet(u)
    <3>1. k + 1 \in 1..(k + 1)
      BY <1>1
    <3> QED BY <1>1, <1>2, <3>1
  <2> QED BY <2>1, <2>2, <2>3
<1>4. ASSUME NEW i \in 1..Len(u), NEW j \in 1..Len(u), u[i] = u[j] PROVE i = j
  <2>1. \A l \in 1..k : u[l] # n
    BY <1>1, <1>2
  <2>2. CASE i \in 1..k /\ j \in 1..k
    BY <1>1, <1>4, <2>2 DEF Sorted, k
  <2> QED BY <1>1, <1>4, <2>1, <2>2
<1>5. ASSUME NEW i \in 1..Len(u), NEW m \in ToSet(g.operands[u[i]])
      PROVE  \E j \in 1..Len(u) : j < i /\ u[j] = m
  <2>1. CASE i = k + 1
    <3>1. m \in ToSet(q)
      BY <1>1, <1>5, <2>1
    <3>2. PICK j \in 1..k : q[j] = m
      BY <1>2, <3>1
    <3> QED BY <1>1, <2>1, <3>2
  <2>2. CASE i \in 1..k
    <3>1. PICK j \in 1..k : j < i /\ q[j] = m
      BY <1>1, <1>5, <2>2 DEF Sorted, k
    <3> QED BY <1>1, <3>1
  <2> QED BY <1>1, <2>1, <2>2
<1> QED BY <1>1, <1>3, <1>4, <1>5 DEF Sorted, u

(* Every visit keeps the result sorted, by induction on the number of the  *)
(* node.                                                                   *)
LEMMA VisitsGood ==
  ASSUME NEW g, Dag(g)
  PROVE  \A n \in ToSet(g.nodes) : VisitGood(g, VisitNode(g), n)
<1> DEFINE N == ToSet(g.nodes)
           v == VisitNode(g)
           S == {k \in Nat : \A n \in N : n[1] < k => VisitGood(g, v, n)}
<1>1. \A n \in N : n[1] \in Nat
  BY DagNumbers
<1>2. \A n \in N : \A r \in Seq(N) :
         v[n][r] = IF n \in ToSet(r) THEN r ELSE Append(FoldOf(v, r, g.operands[n]), n)
  <2>1. VisitEq(g, v, N)
    BY VisitNodeIs
  <2> HIDE DEF v, N
  <2>2. \A n \in N : v[n] = Visiting(g, v, n)
    BY <2>1 DEF VisitEq
  <2> QED BY <2>2 DEF Visiting, N
<1> HIDE DEF v
<1>3. 0 \in S
  BY <1>1
<1>4. ASSUME NEW k \in Nat, k \in S PROVE k + 1 \in S
  <2> SUFFICES ASSUME NEW n \in N, n[1] < k + 1 PROVE VisitGood(g, v, n)
    OBVIOUS
  <2>1. \A m \in ToSet(g.operands[n]) : VisitGood(g, v, m)
    <3> SUFFICES ASSUME NEW m \in ToSet(g.operands[n]) PROVE VisitGood(g, v, m)
      OBVIOUS
    <3>1. m \in N /\ m[1] < n[1]
      BY DagOperands
    <3>2. m[1] < k
      <4>1. m[1] \in Nat /\ n[1] \in Nat
        BY <1>1, <3>1
      <4> QED BY <3>1, <4>1
    <3> QED BY <1>4, <3>1, <3>2
  <2> SUFFICES ASSUME NEW r \in Seq(N)
               PROVE  v[n][r] \in Seq(N) /\ (Sorted(g, r) => Visited(g, n, r, v[n][r]))
    BY DEF VisitGood
  <2>2. CASE n \in ToSet(r)
    <3>1. v[n][r] = r
      BY <1>2, <2>2
    <3> QED BY <2>2, <3>1 DEF Visited
  <2>3. CASE n \notin ToSet(r)
    <3> DEFINE q == FoldOf(v, r, g.operands[n])
    <3>1. v[n][r] = Append(q, n)
      BY <1>2, <2>3
    <3>2. q \in OperandsVisited(g, n, r, Len(g.operands[n]))
      BY <2>1, VisitOperands
    <3> HIDE DEF q
    <3>3. q \in Seq(N)
      BY <3>2 DEF OperandsVisited
    <3>4. Append(q, n) \in Seq(N)
      BY <3>3
    <3>5. ASSUME Sorted(g, r) PROVE Visited(g, n, r, Append(q, n))
      <4>1. /\ Sorted(g, q) /\ ToSet(r) \subseteq ToSet(q)
            /\ \A i \in 1..Len(g.operands[n]) : g.operands[n][i] \in ToSet(q)
            /\ \A x \in ToSet(q) : x \in ToSet(r) \/ x[1] < n[1]
        BY <3>2, <3>5 DEF OperandsVisited
      <4>2. n \notin ToSet(q)
        <5>1. n[1] \in Nat
          BY <1>1
        <5>2. ~(n[1] < n[1])
          BY <5>1
        <5> QED BY <2>3, <4>1, <5>2
      <4>3. \A m \in ToSet(g.operands[n]) : m \in ToSet(q)
        <5>1. g.operands[n] \in Seq(N)
          BY DagOperands
        <5>2. ToSet(g.operands[n]) = {g.operands[n][i] : i \in 1..Len(g.operands[n])}
          BY <5>1 DEF ToSet
        <5> QED BY <4>1, <5>2
      <4>4. Sorted(g, Append(q, n)) /\ ToSet(Append(q, n)) = ToSet(q) \cup {n}
        BY <3>3, <4>1, <4>2, <4>3, SortedAppend
      <4>5. ASSUME NEW x \in ToSet(Append(q, n)) PROVE x \in ToSet(r) \/ x[1] <= n[1]
        <5>1. CASE x = n
          <6>1. n[1] \in Nat
            BY <1>1
          <6>2. n[1] <= n[1]
            BY <6>1
          <6> QED BY <5>1, <6>2
        <5>2. CASE x \in ToSet(q)
          <6>1. CASE x[1] < n[1]
            <7>1. x \in N
              BY <3>3, <5>2 DEF ToSet
            <7>2. x[1] \in Nat /\ n[1] \in Nat
              BY <1>1, <7>1
            <7> QED BY <6>1, <7>2
          <6> QED BY <4>1, <5>2, <6>1
        <5> QED BY <4>4, <5>1, <5>2
      <4> QED BY <4>1, <4>4, <4>5 DEF Visited
    <3> QED BY <3>1, <3>4, <3>5
  <2> QED BY <2>2, <2>3
<1>5. \A k \in Nat : k \in S
  <2> HIDE DEF S
  <2> QED BY <1>3, <1>4, Induction
<1> SUFFICES ASSUME NEW n \in N PROVE VisitGood(g, v, n)
  BY DEF v
<1>6. n[1] \in Nat /\ n[1] + 1 \in Nat /\ n[1] < n[1] + 1
  BY <1>1
<1>7. n[1] + 1 \in S
  <2> HIDE DEF S
  <2> QED BY <1>5, <1>6
<1> QED BY <1>6, <1>7

(* topological_sort lists every node of a graph without cycles once, after *)
(* its operands.                                                           *)
THEOREM TopologicalSortIs ==
  ASSUME NEW g, Dag(g)
  PROVE  /\ topological_sort(g) \in Seq(ToSet(g.nodes))
         /\ Sorted(g, topological_sort(g))
         /\ ToSet(topological_sort(g)) = ToSet(g.nodes)
<1> DEFINE N == ToSet(g.nodes)
           s == g.nodes
           L == Len(s)
           v == VisitNode(g)
           VisitedUpTo(k) == {q \in Seq(N) : Sorted(g, q) /\ \A i \in 1..k : s[i] \in ToSet(q)}
           T == [k \in 0..L |-> VisitedUpTo(k)]
           step == [i \in 1..L |-> v[s[i]]]
<1>1. s \in Seq(N) /\ L \in Nat /\ N = {s[i] : i \in 1..L} /\ \A i \in 1..L : s[i] \in N
  <2>1. g.nodes \in Seq(Names)
    BY DEF Dag
  <2>2. N = {s[i] : i \in 1..L}
    BY <2>1 DEF ToSet
  <2>3. L \in Nat /\ \A i \in 1..L : s[i] \in N
    BY <2>1, <2>2
  <2>4. s \in [1..L -> N]
    BY <2>1, <2>3
  <2> HIDE DEF N, s
  <2>5. s \in Seq(N)
    BY <2>3, <2>4 DEF L
  <2> QED BY <2>2, <2>3, <2>5
<1>2. \A n \in N : VisitGood(g, v, n)
  BY VisitsGood
<1>3. <<>> \in T[0]
  <2>1. <<>> \in VisitedUpTo(0)
    BY DEF Sorted
  <2> QED BY <1>1, <2>1
<1>4. \A k \in 0..L : T[k] \subseteq Seq(N)
  OBVIOUS
<1>5. ASSUME NEW i \in 1..L, NEW t \in Seq(N) PROVE step[i][t] \in Seq(N)
  <2>1. VisitGood(g, v, s[i])
    BY <1>1, <1>2
  <2> QED BY <2>1 DEF VisitGood
<1>6. ASSUME NEW i \in 1..L, NEW t \in T[i - 1] PROVE step[i][t] \in T[i]
  <2>1. i - 1 \in 0..L /\ i \in 0..L
    BY <1>1
  <2>2. t \in VisitedUpTo(i - 1)
    BY <2>1
  <2> DEFINE q == v[s[i]][t]
  <2>3. VisitGood(g, v, s[i])
    BY <1>1, <1>2
  <2>4. q \in Seq(N) /\ Visited(g, s[i], t, q)
    BY <2>2, <2>3 DEF VisitGood
  <2> HIDE DEF q
  <2>5. Sorted(g, q)
    BY <2>4 DEF Visited
  <2>6. ASSUME NEW j \in 1..i PROVE s[j] \in ToSet(q)
    <3>1. CASE j = i
      BY <2>4, <3>1 DEF Visited
    <3>2. CASE j \in 1..(i - 1)
      BY <2>2, <2>4, <3>2 DEF Visited
    <3>3. j = i \/ j \in 1..(i - 1)
      OBVIOUS
    <3> QED BY <3>1, <3>2, <3>3
  <2>7. q \in VisitedUpTo(i)
    BY <2>4, <2>5, <2>6
  <2> HIDE DEF VisitedUpTo
  <2> QED BY <2>1, <2>7 DEF q
<1>7. PrefixHyp(L, Seq(N), T, <<>>, step)
  <2> HIDE DEF T, step, L, N
  <2> QED BY <1>3, <1>4, <1>5, <1>6 DEF PrefixHyp
<1>8. /\ FoldHyp(L, UpTo(L, Seq(N), T), <<>>, step)
      /\ UpTo(L, Seq(N), T)[1..L] \subseteq T[L]
  <2> HIDE DEF T, step, L, N
  <2> QED BY <1>1, <1>7, PrefixFold
<1>9. FoldOf(v, <<>>, s) \in UpTo(L, Seq(N), T)[1..L]
  <2> DEFINE U == UpTo(L, Seq(N), T)
  <2>1. FoldHyp(Len(s), U, <<>>, [i \in 1..Len(s) |-> v[s[i]]])
    BY <1>8
  <2> HIDE DEF U, s, N, v
  <2>2. FoldOf(v, <<>>, s) \in U[1..Len(s)]
    BY <1>1, <2>1, FoldOfFunctions
  <2> QED BY <2>2 DEF U
<1>10. topological_sort(g) = FoldOf(v, <<>>, s)
  BY DEF topological_sort, FoldOf
<1>11. L \in 0..L
  BY <1>1
<1>12. topological_sort(g) \in VisitedUpTo(L)
  <2>1. T[L] = VisitedUpTo(L)
    BY <1>11
  <2> HIDE DEF T, VisitedUpTo, step, L, N, s, v
  <2> QED BY <1>8, <1>9, <1>10, <2>1
<1>13. \A n \in N : n \in ToSet(topological_sort(g))
  BY <1>1, <1>12
<1>14. ToSet(topological_sort(g)) \subseteq N
  <2> DEFINE q == topological_sort(g)
  <2>1. q \in Seq(N)
    BY <1>12
  <2> HIDE DEF q, N
  <2>2. ToSet(q) \subseteq N
    BY <2>1 DEF ToSet
  <2> QED BY <2>2 DEF q
<1> QED BY <1>12, <1>13, <1>14

-----------------------------------------------------------------------------
(* Sound graphs, and what adding a node does.                              *)

PartialMaps(A, B) == UNION {[D -> B] : D \in SUBSET A}

AllGraphs ==
  [nodes : Seq(Names), node : PartialMaps(Names, NodeRecords), operands : PartialMaps(Names, Seq(Names)),
   loopback : SUBSET (Names \X Names), inputs : Seq(Names), outputs : Seq(Names)]

(* The graphs that autograd makes of a traced one.                         *)
Sound(g) == g \in AllGraphs /\ g.node \in [ToSet(g.nodes) -> NodeRecords] /\ Dag(g)

(* What was there stays as it was.                                         *)
Keeps(g, h) ==
  /\ ToSet(g.nodes) \subseteq ToSet(h.nodes)
  /\ \A n \in ToSet(g.nodes) : h.node[n] = g.node[n] /\ h.operands[n] = g.operands[n]

(* Nothing is added to forward.                                            *)
Grows(g, h) ==
  /\ Keeps(g, h) /\ h.outputs = g.outputs
  /\ \A n \in ToSet(h.nodes) : n \in ToSet(g.nodes) \/ ~is_forward(h, n)

(* The parts of a sound graph.                                             *)
LEMMA SoundIs ==
  ASSUME NEW g, Sound(g)
  PROVE  /\ g.nodes \in Seq(Names) /\ g.nodes \in Seq(ToSet(g.nodes)) /\ ToSet(g.nodes) \subseteq Names
         /\ DOMAIN g.node = ToSet(g.nodes) /\ DOMAIN g.operands = ToSet(g.nodes)
         /\ g.node \in [ToSet(g.nodes) -> NodeRecords]
         /\ g.operands \in [ToSet(g.nodes) -> Seq(ToSet(g.nodes))]
         /\ g.loopback \in SUBSET (Names \X Names) /\ g.inputs \in Seq(Names) /\ g.outputs \in Seq(Names)
<1>1. g \in AllGraphs /\ g.node \in [ToSet(g.nodes) -> NodeRecords] /\ Dag(g)
  BY DEF Sound
<1>2. g.nodes \in Seq(Names) /\ g.operands \in [ToSet(g.nodes) -> Seq(ToSet(g.nodes))]
  BY <1>1 DEF Dag
<1>3. g.loopback \in SUBSET (Names \X Names) /\ g.inputs \in Seq(Names) /\ g.outputs \in Seq(Names)
  BY <1>1 DEF AllGraphs
<1>4. ToSet(g.nodes) = {g.nodes[i] : i \in 1..Len(g.nodes)}
  BY <1>2 DEF ToSet
<1>5. ToSet(g.nodes) \subseteq Names
  BY <1>2, <1>4
<1>6. g.nodes \in Seq(ToSet(g.nodes))
  <2> DEFINE s == g.nodes
             N == ToSet(s)
  <2>1. Len(s) \in Nat /\ s \in [1..Len(s) -> N]
    BY <1>2, <1>4
  <2> HIDE DEF s, N
  <2>2. s \in Seq(N)
    BY <2>1
  <2> QED BY <2>2 DEF s, N
<1> QED BY <1>1, <1>2, <1>3, <1>5, <1>6

(* A sequence over a set has its elements there, and is one over a larger  *)
(* set.                                                                    *)
LEMMA SeqElements ==
  ASSUME NEW X, NEW s \in Seq(X)
  PROVE  /\ ToSet(s) = {s[i] : i \in 1..Len(s)} /\ ToSet(s) \subseteq X
         /\ DOMAIN s = 1..Len(s) /\ Len(s) \in Nat
         /\ \A i \in 1..Len(s) : s[i] \in ToSet(s)
<1>1. DOMAIN s = 1..Len(s) /\ Len(s) \in Nat
  OBVIOUS
<1>2. ToSet(s) = {s[i] : i \in 1..Len(s)}
  BY <1>1 DEF ToSet
<1> QED BY <1>1, <1>2

(* A sequence is one over every set that has its elements.                 *)
LEMMA SeqLarger ==
  ASSUME NEW X, NEW Y, NEW s \in Seq(X), ToSet(s) \subseteq Y
  PROVE  s \in Seq(Y)
<1>1. /\ DOMAIN s = 1..Len(s) /\ Len(s) \in Nat
      /\ \A i \in 1..Len(s) : s[i] \in ToSet(s)
  BY SeqElements
<1>2. s \in [1..Len(s) -> Y]
  BY <1>1
<1> QED BY <1>1, <1>2

(* What Append does to the elements of a sequence.                         *)
LEMMA SeqAppend ==
  ASSUME NEW X, NEW s \in Seq(X), NEW x \in X
  PROVE  /\ Append(s, x) \in Seq(X) /\ ToSet(Append(s, x)) = ToSet(s) \cup {x}
         /\ Len(Append(s, x)) = Len(s) + 1 /\ Last(Append(s, x)) = x
<1> DEFINE u == Append(s, x)
           k == Len(s)
<1>1. /\ k \in Nat /\ u \in Seq(X) /\ Len(u) = k + 1 /\ u[k + 1] = x
      /\ \A i \in 1..k : u[i] = s[i]
      /\ \A i \in 1..(k + 1) : i = k + 1 \/ i \in 1..k
      /\ \A i \in 1..k : i \in 1..(k + 1)
      /\ k + 1 \in 1..(k + 1)
  OBVIOUS
<1>2. ToSet(s) = {s[i] : i \in 1..k} /\ ToSet(u) = {u[i] : i \in 1..(k + 1)}
  BY DEF ToSet
<1>3. Last(u) = x
  BY DEF Last
<1> HIDE DEF u, k
<1>4. ToSet(u) \subseteq ToSet(s) \cup {x}
  BY <1>1, <1>2
<1>5. ToSet(s) \subseteq ToSet(u) /\ x \in ToSet(u)
  BY <1>1, <1>2
<1> QED BY <1>1, <1>3, <1>4, <1>5 DEF u, k

(* What h is when a node is added to g.                                    *)
Added(g, h, name, rec, ops) ==
  /\ Sound(h) /\ Keeps(g, h)
  /\ rec.epoch # "Forward" => Grows(g, h)
  /\ ToSet(h.nodes) = ToSet(g.nodes) \cup {name}
  /\ name \notin ToSet(g.nodes) => h.node[name] = rec /\ h.operands[name] = ops
  /\ h.loopback = g.loopback /\ h.inputs = g.inputs /\ h.outputs = g.outputs
  /\ Last(h.nodes) = name

(* add_node adds a node to a sound graph.                                  *)
LEMMA AddNode ==
  ASSUME NEW g, Sound(g), NEW name \in Names, NEW rec \in NodeRecords,
         NEW ops \in Seq(ToSet(g.nodes)), \A m \in ToSet(ops) : m[1] < name[1]
  PROVE  Added(g, add_node(g, name, rec, ops), name, rec, ops)
<1> DEFINE N == ToSet(g.nodes)
           M == N \cup {name}
           h == add_node(g, name, rec, ops)
           node == [n \in M |-> IF n \in N THEN g.node[n] ELSE rec]
           operands == [n \in M |-> IF n \in N THEN g.operands[n] ELSE ops]
<1>1. /\ g \in AllGraphs
      /\ g.nodes \in Seq(Names) /\ N \subseteq Names
      /\ DOMAIN g.node = N /\ DOMAIN g.operands = N
      /\ g.node \in [N -> NodeRecords] /\ g.operands \in [N -> Seq(N)]
      /\ g.loopback \in SUBSET (Names \X Names) /\ g.inputs \in Seq(Names) /\ g.outputs \in Seq(Names)
  BY SoundIs DEF Sound
<1>2. Extend(g.node, name, rec) = node
  BY <1>1 DEF Extend
<1>3. Extend(g.operands, name, ops) = operands
  BY <1>1 DEF Extend
<1>4. /\ h.nodes = Append(g.nodes, name) /\ h.node = node /\ h.operands = operands
      /\ h.loopback = g.loopback /\ h.inputs = g.inputs /\ h.outputs = g.outputs
      /\ h = [nodes |-> h.nodes, node |-> h.node, operands |-> h.operands, loopback |-> h.loopback,
              inputs |-> h.inputs, outputs |-> h.outputs]
  <2>1. h = [g EXCEPT !.nodes = Append(g.nodes, name), !.node = node, !.operands = operands]
    <3> HIDE DEF node, operands
    <3> QED BY <1>2, <1>3 DEF add_node
  <2>2. g = [nodes |-> g.nodes, node |-> g.node, operands |-> g.operands, loopback |-> g.loopback,
             inputs |-> g.inputs, outputs |-> g.outputs]
    BY <1>1 DEF AllGraphs
  <2> HIDE DEF node, operands, N, M, h
  <2>3. h = [nodes |-> Append(g.nodes, name), node |-> node, operands |-> operands,
             loopback |-> g.loopback, inputs |-> g.inputs, outputs |-> g.outputs]
    BY <2>1, <2>2
  <2> QED BY <2>3
<1>5. /\ h.nodes \in Seq(Names) /\ ToSet(h.nodes) = M /\ Last(h.nodes) = name
  <2> HIDE DEF h, node, operands
  <2> QED BY <1>1, <1>4, SeqAppend
<1>6. node \in [M -> NodeRecords] /\ M \subseteq Names
  BY <1>1
<1>7. operands \in [M -> Seq(M)] /\ operands \in [M -> Seq(Names)]
  <2>1. \A n \in N : g.operands[n] \in Seq(M) /\ g.operands[n] \in Seq(Names)
    BY <1>1, <1>6
  <2>2. ops \in Seq(M) /\ ops \in Seq(Names)
    <3>1. ops \in Seq(N)
      OBVIOUS
    <3> HIDE DEF N
    <3> QED BY <1>1, <3>1
  <2>3. \A n \in M : operands[n] \in Seq(M) /\ operands[n] \in Seq(Names)
    BY <2>1, <2>2
  <2>4. operands = [n \in M |-> operands[n]]
    OBVIOUS
  <2> HIDE DEF operands, M
  <2> QED BY <2>3, <2>4
<1>8. h \in AllGraphs
  <2>1. node \in PartialMaps(Names, NodeRecords) /\ operands \in PartialMaps(Names, Seq(Names))
    <3> HIDE DEF node, operands, M
    <3> QED BY <1>6, <1>7 DEF PartialMaps
  <2> HIDE DEF node, operands, M, h
  <2> QED BY <1>1, <1>4, <1>5, <2>1 DEF AllGraphs
<1>9. Numbered(h)
  <2> SUFFICES ASSUME NEW n \in M, NEW i \in DOMAIN operands[n] PROVE operands[n][i][1] < n[1]
    <3> HIDE DEF h, node, operands, M
    <3> QED BY <1>4, <1>6 DEF Numbered
  <2>1. CASE n \in N
    <3>1. operands[n] = g.operands[n]
      BY <2>1
    <3> QED BY <1>1, <2>1, <3>1 DEF Sound, Dag, Numbered
  <2>2. CASE n \notin N
    <3>1. n = name /\ operands[n] = ops
      BY <2>2
    <3>2. ops[i] \in ToSet(ops)
      BY <3>1 DEF ToSet
    <3> QED BY <3>1, <3>2
  <2> QED BY <2>1, <2>2
<1>10. Sound(h)
  <2> HIDE DEF node, operands, M, h
  <2> QED BY <1>4, <1>5, <1>6, <1>7, <1>8, <1>9 DEF Sound, Dag
<1>11. Keeps(g, h)
  <2>1. \A n \in N : node[n] = g.node[n] /\ operands[n] = g.operands[n] /\ n \in M
    OBVIOUS
  <2> HIDE DEF node, operands, M, h
  <2> QED BY <1>4, <1>5, <2>1 DEF Keeps, N
<1>12. name \notin N => node[name] = rec /\ operands[name] = ops
  OBVIOUS
<1> HIDE DEF node, operands, h
<1>13. rec.epoch # "Forward" => Grows(g, h)
  <2>1. ASSUME NEW n \in M, n \notin N PROVE node[n] = rec
    BY <2>1 DEF node
  <2> HIDE DEF M, N
  <2> QED BY <1>4, <1>5, <1>11, <2>1 DEF Grows, is_forward, N
<1> QED BY <1>4, <1>5, <1>10, <1>11, <1>12, <1>13 DEF Added, h

(* What stays in two steps stays in both.                                  *)
LEMMA GrowsTrans ==
  ASSUME NEW f, NEW g, NEW h, Grows(f, g), Grows(g, h)
  PROVE  Grows(f, h)
BY DEF Grows, Keeps, is_forward

(* A number without suffixes is a name.                                    *)
LEMMA NoTags ==
  ASSUME NEW k \in Nat
  PROVE  <<k, <<>>>> \in Names
<1>1. \A S, T : \A a \in S : \A b \in T : <<a, b>> \in S \X T
  OBVIOUS
<1>2. <<>> \in Seq(Tags)
  OBVIOUS
<1> QED BY <1>1, <1>2 DEF Names

(* A fresh name is new, and its number is higher than those of all nodes.  *)
LEMMA FreshIs ==
  ASSUME NEW g, Sound(g)
  PROVE  /\ Fresh(g) \in Names /\ Fresh(g) \notin ToSet(g.nodes)
         /\ Fresh(g) = In(Fresh(g)[1]) /\ Fresh(g)[2] = <<>>
         /\ \A n \in ToSet(g.nodes) : n[1] < Fresh(g)[1]
<1> DEFINE N == ToSet(g.nodes)
           S == {0} \cup {n[1] : n \in N}
<1>1. DOMAIN g.node = N /\ Dag(g)
  BY DEF Sound
<1>2. PICK b \in Nat : \A n \in N : n[1] <= b
  BY <1>1, DagNumbers
<1>3. \A n \in N : n[1] \in Nat
  BY <1>1, DagNumbers
<1>4. S \in SUBSET Nat /\ S # {} /\ \A x \in S : x <= b
  BY <1>2, <1>3
<1>5. Max(S) \in S /\ \A y \in S : y <= Max(S)
  <2> HIDE DEF S
  <2> QED BY <1>4, MaxIs
<1>6. Fresh(g) = <<1 + Max(S), <<>>>>
  BY <1>1 DEF Fresh, In
<1>7. Max(S) \in Nat
  BY <1>4, <1>5
<1>8. Fresh(g)[1] = 1 + Max(S) /\ Fresh(g)[2] = <<>>
  BY <1>6
<1>9. \A n \in N : n[1] < Fresh(g)[1]
  BY <1>3, <1>5, <1>7, <1>8
<1>10. Fresh(g) \in Names
  <2> HIDE DEF S
  <2>1. 1 + Max(S) \in Nat
    BY <1>7
  <2> QED BY <1>6, <2>1, NoTags
<1>11. Fresh(g) \notin N
  <2>1. Fresh(g)[1] \in Nat
    BY <1>7, <1>8
  <2>2. ~(Fresh(g)[1] < Fresh(g)[1])
    BY <2>1
  <2> QED BY <1>9, <2>2
<1>12. Fresh(g) = In(Fresh(g)[1])
  BY <1>6, <1>8 DEF In
<1> HIDE DEF S
<1> QED BY <1>8, <1>9, <1>10, <1>11, <1>12

-----------------------------------------------------------------------------
(* What is known of the nodes as long as autograd adds nodes only.         *)

(* Recomputed nodes are known by their names.                              *)
IsClone(n) == n[2] = <<"recompute">>
NoClones(g) == \A n \in ToSet(g.nodes) : ~IsClone(n)

UsedInForward(g, m) == \E u \in ToSet(g.nodes) : is_forward(g, u) /\ m \in ToSet(g.operands[u])

(* What is known of a node as long as autograd adds nodes only.            *)
NopGood(g, n) ==
  g.node[n].kind = "nop" => g.node[n].type = "PyOp" /\ Len(g.operands[n]) = 1 /\ ~is_optimizer(g, n)
ForwardGood(g, n) ==
  is_forward(g, n) =>
    /\ n = In(n[1])
    /\ g.node[n].type = "Output" => Len(g.operands[n]) = 1
    /\ g.node[n].kind = "multiply" => Len(g.operands[n]) = 2
    /\ \A m \in ToSet(g.operands[n]) : is_forward(g, m) /\ g.node[m].type \in {"Input", "PyOp"}
CloneGood(g, n) ==
  IsClone(n) =>
    /\ is_backward(g, n)
    /\ \A m \in ToSet(g.operands[n]) :
          IsClone(m) \/ (is_forward(g, m) /\ g.node[m].type = "Input" /\ UsedInForward(g, m))
OtherGood(g, n) ==
  ~IsClone(n) =>
    /\ \A m \in ToSet(g.operands[n]) : ~IsClone(m)
    /\ (g.node[n].kind = "nop" /\ is_backward(g, n)) =>
          \A m \in ToSet(g.operands[n]) : ~is_forward(g, m)
NameGood(n) == n[2] = <<>> \/ Last(n[2]) \in {"lr", "mean", "recompute"}
NodeGood(g, n) ==
  NopGood(g, n) /\ ForwardGood(g, n) /\ CloneGood(g, n) /\ OtherGood(g, n) /\ NameGood(n)

(* The ordered inputs are those of the model and the gradients of its      *)
(* outputs.                                                                *)
InputGood(g, n) ==
  /\ g.node[n].type = "Input"
  /\ (is_forward(g, n) /\ g.node[n].kind = "Activation") \/ (is_backward(g, n) /\ g.node[n].kind = "Gradient")
InputsGood(g) == \A n \in ToSet(g.inputs) : n \in ToSet(g.nodes) /\ InputGood(g, n)

LoopbackGood(g) == \A e \in g.loopback : e[1] \in ToSet(g.nodes) /\ is_optimizer(g, e[1])

(* V: the ops whose results the outputs return.                            *)
Returns(g, V) ==
  /\ \A o \in ToSet(g.outputs) :
        /\ o \in ToSet(g.nodes) /\ is_forward(g, o) /\ g.node[o].type = "Output"
        /\ ~g.node[o].intermediate
        /\ Len(g.operands[o]) = 1 /\ g.operands[o][1] \in V
  /\ \A n \in V : /\ n \in ToSet(g.nodes) /\ is_forward(g, n) /\ g.node[n].type = "PyOp"
                  /\ g.node[n].kind = "nop" => g.operands[n][1] \in V

Good(g) ==
  /\ Sound(g)
  /\ \A n \in ToSet(g.nodes) : NodeGood(g, n)
  /\ LoopbackGood(g) /\ InputsGood(g)
  /\ \E V : Returns(g, V)

(* The operands of a node of a sound graph are other nodes, with lower     *)
(* numbers.                                                                *)
LEMMA SoundOperands ==
  ASSUME NEW g, Sound(g), NEW n \in ToSet(g.nodes)
  PROVE  /\ g.operands[n] \in Seq(ToSet(g.nodes))
         /\ ToSet(g.operands[n]) \subseteq ToSet(g.nodes)
         /\ \A m \in ToSet(g.operands[n]) : m[1] < n[1] /\ m # n
         /\ DOMAIN g.operands[n] = 1..Len(g.operands[n]) /\ Len(g.operands[n]) \in Nat
         /\ \A i \in 1..Len(g.operands[n]) : g.operands[n][i] \in ToSet(g.operands[n])
<1>1. Dag(g)
  BY DEF Sound
<1>2. /\ g.operands[n] \in Seq(ToSet(g.nodes))
      /\ \A m \in ToSet(g.operands[n]) : m \in ToSet(g.nodes) /\ m[1] < n[1]
  BY <1>1, DagOperands
<1>3. n[1] \in Nat
  BY <1>1, DagNumbers
<1>4. ~(n[1] < n[1])
  BY <1>3
<1>5. \A m \in ToSet(g.operands[n]) : m # n
  BY <1>2, <1>4
<1>6. DOMAIN g.operands[n] = 1..Len(g.operands[n]) /\ Len(g.operands[n]) \in Nat
      /\ \A i \in 1..Len(g.operands[n]) : g.operands[n][i] \in ToSet(g.operands[n])
  BY <1>2, SeqElements
<1> QED BY <1>2, <1>5, <1>6

(* A good node is good in a graph that has more nodes.                     *)
LEMMA NodeStaysGood ==
  ASSUME NEW g, NEW h, Sound(g), Grows(g, h), NEW n \in ToSet(g.nodes), NodeGood(g, n)
  PROVE  NodeGood(h, n)
<1>1. h.node[n] = g.node[n] /\ h.operands[n] = g.operands[n]
  BY DEF Grows, Keeps
<1>2. \A m \in ToSet(g.operands[n]) : h.node[m] = g.node[m]
  BY SoundOperands DEF Grows, Keeps
<1>3. \A m : UsedInForward(g, m) => UsedInForward(h, m)
  BY DEF UsedInForward, Grows, Keeps, is_forward
<1>4. NopGood(h, n)
  BY <1>1 DEF NodeGood, NopGood, is_optimizer
<1>5. ForwardGood(h, n)
  BY <1>1, <1>2 DEF NodeGood, ForwardGood, is_forward
<1>6. CloneGood(h, n)
  BY <1>1, <1>2, <1>3 DEF NodeGood, CloneGood, is_forward, is_backward
<1>7. OtherGood(h, n)
  BY <1>1, <1>2 DEF NodeGood, OtherGood, is_forward, is_backward
<1>8. NameGood(n)
  BY DEF NodeGood
<1> QED BY <1>4, <1>5, <1>6, <1>7, <1>8 DEF NodeGood

(* The outputs return the same results in a graph that has more nodes.     *)
LEMMA ReturnsStays ==
  ASSUME NEW g, NEW h, Grows(g, h), NEW V, Returns(g, V)
  PROVE  Returns(h, V)
BY DEF Returns, Grows, Keeps, is_forward

(* A good graph stays good when the nodes that are new are good.           *)
LEMMA GoodGrows ==
  ASSUME NEW g, NEW h, Good(g), Sound(h), Grows(g, h), LoopbackGood(h), InputsGood(h),
         \A n \in ToSet(h.nodes) : n \notin ToSet(g.nodes) => NodeGood(h, n)
  PROVE  Good(h)
<1>1. \A n \in ToSet(h.nodes) : NodeGood(h, n)
  BY NodeStaysGood DEF Good
<1>2. PICK V : Returns(g, V)
  BY DEF Good
<1>3. Returns(h, V)
  BY <1>2, ReturnsStays
<1> QED BY <1>1, <1>3 DEF Good

(* Adding a node to a good graph.                                          *)
LEMMA AddGood ==
  ASSUME NEW g, Good(g), NEW name \in Names, NEW rec \in NodeRecords,
         NEW ops \in Seq(ToSet(g.nodes)), \A m \in ToSet(ops) : m[1] < name[1],
         rec.epoch # "Forward",
         name \notin ToSet(g.nodes) => NodeGood(add_node(g, name, rec, ops), name)
  PROVE  /\ Added(g, add_node(g, name, rec, ops), name, rec, ops)
         /\ Good(add_node(g, name, rec, ops)) /\ Grows(g, add_node(g, name, rec, ops))
<1> DEFINE h == add_node(g, name, rec, ops)
<1>1. Added(g, h, name, rec, ops)
  BY AddNode DEF Good
<1> HIDE DEF h
<1>2. Sound(h) /\ Grows(g, h) /\ h.inputs = g.inputs /\ h.loopback = g.loopback
      /\ ToSet(h.nodes) = ToSet(g.nodes) \cup {name}
  BY <1>1 DEF Added
<1>3. LoopbackGood(h)
  BY <1>2 DEF Good, LoopbackGood, Grows, Keeps, is_optimizer
<1>4. name \notin ToSet(g.nodes) => NodeGood(h, name)
  BY DEF h
<1>5. \A n \in ToSet(h.nodes) : n \notin ToSet(g.nodes) => NodeGood(h, n)
  BY <1>2, <1>4
<1>6. InputsGood(h)
  BY <1>2 DEF Good, InputsGood, InputGood, Grows, Keeps, is_forward, is_backward
<1>7. Good(h)
  BY <1>2, <1>3, <1>5, <1>6, GoodGrows
<1> QED BY <1>1, <1>2, <1>7 DEF h

-----------------------------------------------------------------------------
(* The inductive invariant.                                                *)

(* What is known of a graph in every stage.                                *)
Plain(g) ==
  /\ Sound(g)
  /\ \A n \in ToSet(g.nodes) : NopGood(g, n) /\ NameGood(n)
  /\ LoopbackGood(g)
  /\ \A n \in ToSet(g.inputs) : n \in ToSet(g.nodes) => InputGood(g, n)
  /\ \E V : Returns(g, V)

(* The gradients of a node are backward nodes, one at least.               *)
GradsGood(g, grads) ==
  /\ grads \in PartialMaps(Names, Seq(Names))
  /\ \A n \in DOMAIN grads :
        /\ n \in ToSet(g.nodes) /\ grads[n] # <<>>
        /\ \A m \in ToSet(grads[n]) : m \in ToSet(g.nodes) /\ is_backward(g, m)

(* With recomputation backward reads no result of forward.                 *)
ReadsNoForward(g, n) ==
  is_backward(g, n) => \A m \in ToSet(g.operands[n]) : ~(is_forward(g, m) /\ g.node[m].type = "PyOp")
NopReadsNoClone(g, n) ==
  (g.node[n].kind = "nop" /\ ~IsClone(n)) => \A m \in ToSet(g.operands[n]) : ~IsClone(m)
Recomputed(g) ==
  \A n \in ToSet(g.nodes) : /\ ReadsNoForward(g, n) /\ NopReadsNoClone(g, n)
                            /\ IsClone(n) => is_backward(g, n)

Used(g, n) == \E m \in ToSet(g.nodes) : n \in ToSet(g.operands[m])

Adding == {"propagate_requires_grad", "create_gradient_inputs", "create_backward_graph", "create_optimizer_graph"}
Recomputing == {"create_recompute_ops", "remove_recompute_ops"}
Finishing == {"remove_nops", "split_graph", "done"}

AddingInv ==
  stage \in Adding =>
    /\ Good(graph) /\ NoClones(graph)
    /\ fwd_to_recompute = <<>>
    /\ GradsGood(graph, fwd_to_out_gradient_map)
    /\ todo \in Seq(ToSet(graph.nodes))
    /\ stage = "propagate_requires_grad" => \A n \in ToSet(graph.nodes) : is_forward(graph, n)
    /\ stage = "create_gradient_inputs" =>
         \A n \in ToSet(todo) : is_forward(graph, n) /\ graph.node[n].type = "Output"
    /\ stage = "create_backward_graph" => \A n \in ToSet(todo) : is_forward(graph, n)

(* Every forward op has its clone or is to be cloned, after its operands.  *)
CloningInv ==
  stage = "create_recompute_ops" =>
    /\ Good(graph)
    /\ fwd_to_recompute \in PartialMaps(Names, Names)
    /\ \A n \in DOMAIN fwd_to_recompute :
          /\ n \in ToSet(graph.nodes) /\ is_forward(graph, n) /\ graph.node[n].type = "PyOp"
          /\ fwd_to_recompute[n] = Recompute(n) /\ Recompute(n) \in ToSet(graph.nodes)
    /\ \A c \in ToSet(graph.nodes) : IsClone(c) => \E n \in DOMAIN fwd_to_recompute : c = Recompute(n)
    /\ todo \in Seq(ToSet(graph.nodes))
    /\ \A n \in ToSet(todo) : is_forward(graph, n) /\ graph.node[n].type = "PyOp"
    /\ \A n \in ToSet(graph.nodes) :
          (is_forward(graph, n) /\ graph.node[n].type = "PyOp") => n \in DOMAIN fwd_to_recompute \cup ToSet(todo)
    /\ \A i \in 1..Len(todo) : \A m \in ToSet(graph.operands[todo[i]]) :
          graph.node[m].type = "PyOp" =>
             m \in DOMAIN fwd_to_recompute \/ \E j \in 1..Len(todo) : j < i /\ todo[j] = m

(* A clone without a user is still to be looked at.                        *)
RemovingInv ==
  stage = "remove_recompute_ops" =>
    /\ \A n \in ToSet(graph.nodes) : CloneGood(graph, n)
    /\ todo \in Seq(Names)
    /\ \A n \in ToSet(todo) : IsClone(n) \/ UsedInForward(graph, n)
    /\ \A n \in ToSet(graph.nodes) : IsClone(n) => Used(graph, n) \/ n \in ToSet(todo)

RecomputedInv ==
  (config.recompute /\ stage \in Finishing \cup {"remove_recompute_ops"}) =>
    /\ Recomputed(graph)
    /\ \A n \in DOMAIN fwd_to_recompute : IsClone(fwd_to_recompute[n])
    /\ stage \in Finishing => \A n \in ToSet(graph.nodes) : IsClone(n) => Used(graph, n)

GraphInv ==
  /\ stage \in Adding \cup Recomputing \cup Finishing
  /\ config \in [optimizer : Optimizers, recompute : BOOLEAN]
  /\ stage \in Recomputing => config.recompute
  /\ Plain(graph)
  /\ AddingInv /\ CloningInv /\ RemovingInv /\ RecomputedInv
  /\ stage = "done" => /\ module.Forward = extract_forward_graph(graph)
                       /\ module.Backward = extract_backward_graph(graph, module.Forward)

(* A good graph is a plain one.                                            *)
LEMMA GoodIsPlain ==
  ASSUME NEW g, Good(g)
  PROVE  Plain(g)
BY DEF Good, Plain, NodeGood, InputsGood

(* A traced graph is good, and has forward nodes only.                     *)
LEMMA TracedIsGood ==
  ASSUME NEW g, IsTraced(g), ReturnsOps(g)
  PROVE  Good(g) /\ NoClones(g) /\ \A n \in ToSet(g.nodes) : is_forward(g, n)
<1> DEFINE N == ToSet(g.nodes)
<1>1. /\ N \subseteq Names /\ g \in Graphs(N) /\ Numbered(g)
      /\ g.loopback = {}
  BY DEF IsTraced, WellFormed
<1>2. /\ g.nodes \in Seq(N) /\ g.node \in [N -> NodeRecords] /\ g.operands \in [N -> Seq(N)]
      /\ g.inputs \in Seq(N) /\ g.outputs \in Seq(N)
      /\ g = [nodes |-> g.nodes, node |-> g.node, operands |-> g.operands, loopback |-> g.loopback,
              inputs |-> g.inputs, outputs |-> g.outputs]
  <2> HIDE DEF N
  <2> QED BY <1>1 DEF Graphs
<1>3. \A s \in Seq(N) : s \in Seq(Names)
  <2> HIDE DEF N
  <2> QED BY <1>1
<1>4. DOMAIN g.node = N
  BY <1>2
<1>5. Dag(g)
  BY <1>1, <1>2, <1>3, <1>4 DEF Dag
<1>6. g \in AllGraphs
  <2> HIDE DEF N
  <2>1. g.node \in PartialMaps(Names, NodeRecords)
    BY <1>1, <1>2 DEF PartialMaps
  <2>2. g.operands \in PartialMaps(Names, Seq(Names))
    <3>1. g.operands \in [N -> Seq(Names)]
      BY <1>2, <1>3
    <3> QED BY <1>1, <3>1 DEF PartialMaps
  <2>3. g.loopback \in SUBSET (Names \X Names)
    BY <1>1
  <2> QED BY <1>2, <1>3, <2>1, <2>2, <2>3 DEF AllGraphs
<1>7. Sound(g)
  BY <1>2, <1>5, <1>6 DEF Sound
<1>8. \A n \in N : ToSet(g.operands[n]) \subseteq N
  BY <1>7, SoundOperands
<1>9. \A n \in N :
        /\ n = In(n[1]) /\ is_forward(g, n) /\ ~g.node[n].intermediate
        /\ g.node[n].type \in {"Input", "PyOp", "Output"}
        /\ g.node[n].type = "Output" => Len(g.operands[n]) = 1
        /\ g.node[n].kind = "nop" => g.node[n].type = "PyOp" /\ Len(g.operands[n]) = 1
        /\ g.node[n].kind = "multiply" => Len(g.operands[n]) = 2
        /\ \A m \in ToSet(g.operands[n]) : g.node[m].type # "Output"
  BY <1>4 DEF IsTraced
<1>10. \A n \in N : ~IsClone(n)
  <2>1. \A n \in N : n[2] = <<>>
    BY <1>9 DEF In
  <2>2. <<>> # <<"recompute">>
    OBVIOUS
  <2> HIDE DEF N
  <2> QED BY <2>1, <2>2 DEF IsClone
<1>11. ASSUME NEW n \in N PROVE NodeGood(g, n)
  <2>1. ForwardGood(g, n)
    BY <1>8, <1>9 DEF ForwardGood
  <2>2. NopGood(g, n)
    BY <1>9 DEF NopGood, is_forward, is_optimizer
  <2>3. CloneGood(g, n)
    BY <1>10 DEF CloneGood
  <2>4. OtherGood(g, n)
    BY <1>8, <1>9, <1>10 DEF OtherGood, is_forward, is_backward
  <2>5. NameGood(n)
    BY <1>9 DEF NameGood, In
  <2> QED BY <2>1, <2>2, <2>3, <2>4, <2>5 DEF NodeGood
<1>12. LoopbackGood(g)
  BY <1>1 DEF LoopbackGood
<1>13. \E V : Returns(g, V)
  <2>1. PICK S \in SUBSET {n \in DOMAIN g.node : g.node[n].type = "PyOp"} :
             /\ \A n \in S : g.node[n].kind = "nop" => g.operands[n][1] \in S
             /\ \A n \in ToSet(g.outputs) : g.operands[n][1] \in S
    BY DEF ReturnsOps
  <2>2. \A n \in ToSet(g.outputs) : n \in N /\ g.node[n].type = "Output"
    BY <1>2, SeqElements DEF IsTraced
  <2>3. Returns(g, S)
    <3> HIDE DEF N
    <3> QED BY <1>4, <1>9, <2>1, <2>2 DEF Returns, N
  <2> QED BY <2>3
<1>14. InputsGood(g)
  <2>1. \A n \in ToSet(g.inputs) : n \in N
    BY <1>2, SeqElements
  <2> QED BY <1>9, <2>1 DEF IsTraced, InputsGood, InputGood, N
<1> QED BY <1>7, <1>9, <1>10, <1>11, <1>12, <1>13, <1>14 DEF Good, NoClones

(* The empty map is a map.                                                 *)
LEMMA EmptyMap ==
  ASSUME NEW A, NEW B
  PROVE  <<>> \in PartialMaps(A, B)
<1>1. <<>> \in [{} -> B]
  OBVIOUS
<1> QED BY <1>1 DEF PartialMaps

(* The invariant holds of the traced graphs.                               *)
LEMMA GraphInvInit == Init => GraphInv
<1> SUFFICES ASSUME Init PROVE GraphInv
  OBVIOUS
<1>1. Good(graph) /\ NoClones(graph) /\ \A n \in ToSet(graph.nodes) : is_forward(graph, n)
  BY ProgramsAssumption, OutputsAssumption, TracedIsGood DEF Init
<1>2. GradsGood(graph, fwd_to_out_gradient_map)
  <2>1. fwd_to_out_gradient_map = <<>> /\ DOMAIN fwd_to_out_gradient_map = {}
    BY DEF Init
  <2> QED BY <2>1, EmptyMap DEF GradsGood
<1>3. stage = "propagate_requires_grad" /\ todo = <<>> /\ fwd_to_recompute = <<>>
      /\ config \in [optimizer : Optimizers, recompute : BOOLEAN]
  BY DEF Init
<1>4. AddingInv
  BY <1>1, <1>2, <1>3 DEF AddingInv
<1> QED BY <1>1, <1>3, <1>4, GoodIsPlain
        DEF GraphInv, CloningInv, RemovingInv, RecomputedInv, Adding, Recomputing, Finishing

(* Node makes a record of a node.                                          *)
LEMMA NodeRecord ==
  ASSUME NEW type \in NodeTypes, NEW kind \in Kinds, NEW epoch \in Epochs
  PROVE  Node(type, kind, epoch) \in NodeRecords
BY DEF Node, NodeRecords

(* What a new node of autograd is known by.                                *)
NewGood(g, rec, ops) ==
  /\ rec \in NodeRecords /\ rec.epoch # "Forward"
  /\ ops \in Seq(ToSet(g.nodes)) /\ \A m \in ToSet(ops) : ~IsClone(m)
  /\ rec.kind = "nop" => /\ rec.type = "PyOp" /\ Len(ops) = 1 /\ rec.epoch = "Backward"
                         /\ \A m \in ToSet(ops) : ~is_forward(g, m)

(* A new node under a fresh name leaves the graph good.                    *)
LEMMA AddFresh ==
  ASSUME NEW g, Good(g), NEW rec, NEW ops, NewGood(g, rec, ops)
  PROVE  /\ Good(add_node(g, Fresh(g), rec, ops)) /\ Grows(g, add_node(g, Fresh(g), rec, ops))
         /\ Added(g, add_node(g, Fresh(g), rec, ops), Fresh(g), rec, ops)
         /\ Fresh(g) \notin ToSet(g.nodes)
         /\ NoClones(g) => NoClones(add_node(g, Fresh(g), rec, ops))
<1> DEFINE name == Fresh(g)
           h == add_node(g, name, rec, ops)
<1>1. /\ name \in Names /\ name \notin ToSet(g.nodes) /\ name[2] = <<>>
      /\ \A n \in ToSet(g.nodes) : n[1] < name[1]
  BY FreshIs DEF Good
<1>2. rec \in NodeRecords /\ ops \in Seq(ToSet(g.nodes)) /\ ToSet(ops) \subseteq ToSet(g.nodes)
  BY SeqElements DEF NewGood
<1>3. ~IsClone(name)
  <2>1. <<>> # <<"recompute">>
    OBVIOUS
  <2> QED BY <1>1, <2>1 DEF IsClone
<1> HIDE DEF name, h
<1>4. Added(g, h, name, rec, ops)
  BY <1>1, <1>2, AddNode DEF Good, h
<1>5. NodeGood(h, name)
  <2>1. h.node[name] = rec /\ h.operands[name] = ops
    BY <1>1, <1>4 DEF Added
  <2>2. \A m \in ToSet(ops) : h.node[m] = g.node[m]
    BY <1>2, <1>4 DEF Added, Grows, Keeps
  <2>3. NopGood(h, name)
    BY <2>1 DEF NopGood, NewGood, is_optimizer
  <2>4. ForwardGood(h, name)
    BY <2>1 DEF ForwardGood, NewGood, is_forward
  <2>5. CloneGood(h, name)
    BY <1>3 DEF CloneGood
  <2>6. OtherGood(h, name)
    BY <2>1, <2>2 DEF OtherGood, NewGood, is_forward
  <2>7. NameGood(name)
    BY <1>1 DEF NameGood
  <2> QED BY <2>3, <2>4, <2>5, <2>6, <2>7 DEF NodeGood
<1>6. Good(h) /\ Grows(g, h)
  <2>1. rec.epoch # "Forward"
    BY DEF NewGood
  <2> QED BY <1>1, <1>2, <1>5, <2>1, AddGood DEF h
<1>7. NoClones(g) => NoClones(h)
  BY <1>3, <1>4 DEF NoClones, Added
<1> QED BY <1>1, <1>4, <1>6, <1>7 DEF h, name

(* The gradients stay good in a graph that has more nodes.                 *)
LEMMA GradsGrow ==
  ASSUME NEW g, NEW h, NEW grads, Grows(g, h), GradsGood(g, grads)
  PROVE  GradsGood(h, grads)
<1>1. \A n \in ToSet(g.nodes) : n \in ToSet(h.nodes) /\ h.node[n] = g.node[n]
  BY DEF Grows, Keeps
<1> QED BY <1>1 DEF GradsGood, is_backward

IsMap(f) == f = [x \in DOMAIN f |-> f[x]]

(* The gradients of one node are replaced.                                 *)
LEMMA GradsSet ==
  ASSUME NEW g, Sound(g), NEW grads, GradsGood(g, grads), NEW fwd \in ToSet(g.nodes),
         NEW s \in Seq(ToSet(g.nodes)), s # <<>>, \A m \in ToSet(s) : is_backward(g, m),
         NEW new, DOMAIN new = DOMAIN grads \cup {fwd}, new[fwd] = s,
         IsMap(new),
         \A n \in DOMAIN grads : n # fwd => new[n] = grads[n]
  PROVE  GradsGood(g, new)
<1>1. ToSet(g.nodes) \subseteq Names /\ ToSet(s) \subseteq ToSet(g.nodes)
  BY SoundIs, SeqElements
<1>2. s \in Seq(Names)
  BY <1>1, SeqLarger
<1>3. PICK D \in SUBSET Names : grads \in [D -> Seq(Names)]
  BY DEF GradsGood, PartialMaps
<1>4. /\ D = DOMAIN grads /\ fwd \in Names
      /\ \A n \in DOMAIN new : new[n] \in Seq(Names)
  BY <1>1, <1>2, <1>3
<1>5. new \in [DOMAIN new -> Seq(Names)] /\ DOMAIN new \in SUBSET Names
  BY <1>3, <1>4 DEF IsMap
<1>6. new \in PartialMaps(Names, Seq(Names))
  BY <1>5 DEF PartialMaps
<1>7. ASSUME NEW n \in DOMAIN new
      PROVE  /\ n \in ToSet(g.nodes) /\ new[n] # <<>>
             /\ \A m \in ToSet(new[n]) : m \in ToSet(g.nodes) /\ is_backward(g, m)
  <2>1. CASE n = fwd
    BY <1>1, <2>1
  <2>2. CASE n # fwd
    BY <2>2 DEF GradsGood
  <2> QED BY <2>1, <2>2
<1> QED BY <1>6, <1>7 DEF GradsGood

(* Registering a gradient of a node.                                       *)
LEMMA GradsAdd ==
  ASSUME NEW g, Sound(g), NEW grads, GradsGood(g, grads), NEW fwd \in ToSet(g.nodes),
         NEW bwd \in ToSet(g.nodes), is_backward(g, bwd)
  PROVE  GradsGood(g, add_fwd_to_out_gradient(grads, fwd, bwd))
<1> DEFINE new == add_fwd_to_out_gradient(grads, fwd, bwd)
           N == ToSet(g.nodes)
<1>1. PICK D \in SUBSET Names : grads \in [D -> Seq(Names)]
  BY DEF GradsGood, PartialMaps
<1>2. CASE fwd \in DOMAIN grads
  <2> DEFINE old == grads[fwd]
             s == Append(old, bwd)
  <2>1. old \in Seq(Names) /\ ToSet(old) \subseteq N /\ \A m \in ToSet(old) : is_backward(g, m)
    BY <1>1, <1>2 DEF GradsGood
  <2>2. old \in Seq(N)
    <3> HIDE DEF old, N
    <3> QED BY <2>1, SeqLarger
  <2>3. s \in Seq(N) /\ ToSet(s) = ToSet(old) \cup {bwd} /\ s # <<>>
    <3> HIDE DEF old
    <3>1. s # <<>>
      BY <2>2
    <3> HIDE DEF N
    <3> QED BY <2>2, <3>1, SeqAppend DEF N
  <2>4. new = [grads EXCEPT ![fwd] = s]
    BY <1>2 DEF add_fwd_to_out_gradient
  <2>5. /\ DOMAIN new = DOMAIN grads \cup {fwd} /\ new[fwd] = s
        /\ IsMap(new)
        /\ \A n \in DOMAIN grads : n # fwd => new[n] = grads[n]
    <3> HIDE DEF s, new
    <3> QED BY <1>1, <1>2, <2>4 DEF IsMap
  <2>6. \A m \in ToSet(s) : is_backward(g, m)
    BY <2>1, <2>3
  <2> HIDE DEF s, new
  <2>7. GradsGood(g, new)
    BY <2>3, <2>5, <2>6, GradsSet
  <2> QED BY <2>7 DEF new
<1>3. CASE fwd \notin DOMAIN grads
  <2> DEFINE s == <<bwd>>
  <2>1. s \in Seq(N) /\ ToSet(s) = {bwd} /\ s # <<>>
    BY DEF ToSet
  <2>2. new = [n \in DOMAIN grads \cup {fwd} |-> IF n \in DOMAIN grads THEN grads[n] ELSE s]
    BY <1>3 DEF add_fwd_to_out_gradient, Extend
  <2>3. /\ DOMAIN new = DOMAIN grads \cup {fwd} /\ new[fwd] = s
        /\ IsMap(new)
        /\ \A n \in DOMAIN grads : n # fwd => new[n] = grads[n]
    <3> HIDE DEF s, new
    <3> QED BY <1>3, <2>2 DEF IsMap
  <2>4. \A m \in ToSet(s) : is_backward(g, m)
    BY <2>1
  <2> HIDE DEF s, new
  <2>5. GradsGood(g, new)
    BY <2>1, <2>3, <2>4, GradsSet
  <2> QED BY <2>5 DEF new
<1> QED BY <1>2, <1>3

(* The inputs of a graph matter to the rest of it.                         *)
LEMMA GoodInputs ==
  ASSUME NEW g, Good(g), NEW h, NEW s \in Seq(Names), h = [g EXCEPT !.inputs = s],
         \A n \in ToSet(s) : n \in ToSet(g.nodes) /\ InputGood(g, n)
  PROVE  Good(h) /\ Grows(g, h) /\ ToSet(h.nodes) = ToSet(g.nodes)
<1>1. g \in AllGraphs
  BY DEF Good, Sound
<1>2. /\ h.nodes = g.nodes /\ h.node = g.node /\ h.operands = g.operands /\ h.loopback = g.loopback
      /\ h.outputs = g.outputs /\ h.inputs = s /\ h \in AllGraphs
  BY <1>1 DEF AllGraphs
<1>3. Dag(h)
  BY <1>2 DEF Good, Sound, Dag, Numbered
<1>4. Sound(h) /\ Grows(g, h)
  BY <1>2, <1>3 DEF Good, Sound, Grows, Keeps
<1>5. LoopbackGood(h)
  BY <1>2 DEF Good, LoopbackGood, is_optimizer
<1>6. InputsGood(h)
  BY <1>2 DEF InputsGood, InputGood, is_forward, is_backward
<1> QED BY <1>2, <1>4, <1>5, <1>6, GoodGrows

-----------------------------------------------------------------------------
(* The actions that create the backward graph.                             *)

(* The first element of a sequence, and the others.                        *)
LEMMA SeqHeadTail ==
  ASSUME NEW X, NEW s \in Seq(X), s # <<>>
  PROVE  /\ Head(s) \in X /\ Head(s) \in ToSet(s) /\ Head(s) = s[1] /\ 1 \in 1..Len(s)
         /\ Tail(s) \in Seq(X) /\ ToSet(s) = {Head(s)} \cup ToSet(Tail(s))
         /\ Len(Tail(s)) = Len(s) - 1
         /\ \A i \in 1..Len(Tail(s)) : Tail(s)[i] = s[i + 1] /\ i + 1 \in 1..Len(s)
<1> DEFINE t == Tail(s)
           k == Len(s)
<1>1. /\ k \in Nat /\ k # 0 /\ t \in Seq(X) /\ Len(t) = k - 1 /\ Head(s) = s[1] /\ 1 \in 1..k
      /\ \A i \in 1..(k - 1) : t[i] = s[i + 1]
  OBVIOUS
<1>2. /\ \A i \in 1..(k - 1) : i + 1 \in 1..k
      /\ \A i \in 1..k : i = 1 \/ (i - 1 \in 1..(k - 1) /\ (i - 1) + 1 = i)
  BY <1>1
<1>3. ToSet(s) = {s[i] : i \in 1..k} /\ ToSet(t) = {t[i] : i \in 1..(k - 1)}
  <2> HIDE DEF t
  <2>1. DOMAIN t = 1..Len(t) /\ ToSet(t) = {t[i] : i \in 1..Len(t)}
    BY <1>1, SeqElements
  <2> QED BY <1>1, <2>1, SeqElements
<1> HIDE DEF t, k
<1>4. \A x \in ToSet(t) : x \in ToSet(s)
  BY <1>1, <1>2, <1>3
<1>5. ASSUME NEW x \in ToSet(s) PROVE x = Head(s) \/ x \in ToSet(t)
  <2>1. PICK i \in 1..k : x = s[i]
    BY <1>3
  <2>2. CASE i = 1
    BY <1>1, <2>1, <2>2
  <2>3. CASE i # 1
    <3>1. i - 1 \in 1..(k - 1) /\ (i - 1) + 1 = i
      BY <1>2, <2>3
    <3>2. t[i - 1] = x
      BY <1>1, <2>1, <3>1
    <3> QED BY <1>3, <3>1, <3>2
  <2> QED BY <2>2, <2>3
<1>6. Head(s) \in ToSet(s)
  BY <1>1, <1>3
<1>7. ToSet(s) = {Head(s)} \cup ToSet(t)
  BY <1>4, <1>5, <1>6
<1>8. Head(s) \in X
  BY <1>1 DEF k
<1> QED BY <1>1, <1>2, <1>6, <1>7, <1>8 DEF t, k

(* The nodes of a set, in the order of the graph.                          *)
LEMMA NodesByType ==
  ASSUME NEW g, Sound(g), NEW S
  PROVE  /\ Only(g.nodes, S) \in Seq(ToSet(g.nodes))
         /\ ToSet(Only(g.nodes, S)) = ToSet(g.nodes) \cap S
<1>1. g.nodes \in Seq(ToSet(g.nodes))
  BY SoundIs
<1> QED BY <1>1, OnlyElements

(* A step of the stages that add nodes.                                    *)
LEMMA AddingStep ==
  ASSUME config \in [optimizer : Optimizers, recompute : BOOLEAN], config' = config,
         stage' \in Adding, AddingInv'
  PROVE  GraphInv'
<1>1. Good(graph')
  BY DEF AddingInv
<1>2. Plain(graph')
  BY <1>1, GoodIsPlain
<1> QED BY <1>2 DEF GraphInv, CloningInv, RemovingInv, RecomputedInv, Adding, Recomputing, Finishing

(* propagate_requires_grad keeps the invariant.                            *)
LEMMA PropagateInv ==
  ASSUME GraphInv, propagate_requires_grad
  PROVE  GraphInv'
<1>1. AddingInv /\ stage = "propagate_requires_grad" /\ stage \in Adding
  BY DEF GraphInv, propagate_requires_grad, Adding
<1>2. Good(graph) /\ Sound(graph)
  BY <1>1 DEF AddingInv, Good
<1>3. DOMAIN graph.node = ToSet(graph.nodes)
  BY <1>2, SoundIs
<1>4. /\ todo' \in Seq(ToSet(graph.nodes))
      /\ ToSet(todo') = ToSet(graph.nodes) \cap {n \in DOMAIN graph.node : graph.node[n].type = "Output"}
  BY <1>2, NodesByType DEF propagate_requires_grad, nodes_by_type
<1>5. \A n \in ToSet(todo') : is_forward(graph, n) /\ graph.node[n].type = "Output"
  BY <1>1, <1>4 DEF AddingInv
<1>6. AddingInv'
  BY <1>1, <1>4, <1>5 DEF AddingInv, propagate_requires_grad
<1> QED BY <1>6, AddingStep DEF GraphInv, propagate_requires_grad, Adding

(* create_gradient_input keeps the invariant.                              *)
LEMMA GradientInputInv ==
  ASSUME GraphInv, create_gradient_input
  PROVE  GraphInv' /\ Grows(graph, graph')
<1> DEFINE output == Head(todo)
           op == graph.operands[output][1]
           input == Fresh(graph)
           rec == Node("Input", IF graph.node[output].loss THEN "Constant" ELSE "Gradient", "Backward")
           more == add_node(graph, input, rec, <<>>)
           N == ToSet(graph.nodes)
<1>1. stage = "create_gradient_inputs" /\ todo # <<>> /\ todo' = Tail(todo) /\ stage' = stage
      /\ config' = config /\ fwd_to_recompute' = fwd_to_recompute
  BY DEF create_gradient_input
<1>2. /\ Good(graph) /\ NoClones(graph) /\ fwd_to_recompute = <<>>
      /\ GradsGood(graph, fwd_to_out_gradient_map) /\ todo \in Seq(N)
      /\ \A n \in ToSet(todo) : is_forward(graph, n) /\ graph.node[n].type = "Output"
  BY <1>1 DEF GraphInv, AddingInv, Adding
<1>3. /\ output \in N /\ output \in ToSet(todo)
      /\ Tail(todo) \in Seq(N) /\ ToSet(Tail(todo)) \subseteq ToSet(todo)
  <2> HIDE DEF N
  <2> QED BY <1>1, <1>2, SeqHeadTail
<1>4. op \in N
  <2>1. ForwardGood(graph, output) /\ Sound(graph)
    BY <1>2, <1>3 DEF Good, NodeGood
  <2>2. Len(graph.operands[output]) = 1
    BY <1>2, <1>3, <2>1 DEF ForwardGood
  <2>3. graph.operands[output] \in Seq(N)
    BY <1>3, <2>1, SoundOperands
  <2> QED BY <2>2, <2>3
<1>5. NewGood(graph, rec, <<>>)
  <2>1. rec.epoch = "Backward" /\ rec.kind \in {"Constant", "Gradient"}
    BY DEF Node
  <2>2. rec \in NodeRecords
    <3> DEFINE kind == IF graph.node[output].loss THEN "Constant" ELSE "Gradient"
    <3>1. kind \in Kinds /\ "Input" \in NodeTypes /\ "Backward" \in Epochs
      BY DEF NodeTypes, Epochs, Kinds
    <3> HIDE DEF kind
    <3>2. Node("Input", kind, "Backward") \in NodeRecords
      BY <3>1, NodeRecord
    <3> QED BY <3>2 DEF kind
  <2>3. ToSet(<<>>) = {}
    BY DEF ToSet
  <2> HIDE DEF rec
  <2> QED BY <2>1, <2>2, <2>3 DEF NewGood
<1>6. /\ Good(more) /\ Added(graph, more, input, rec, <<>>) /\ input \notin N /\ NoClones(more)
      /\ Grows(graph, more)
  <2> HIDE DEF rec
  <2> QED BY <1>2, <1>5, AddFresh
<1>7. /\ Grows(graph, more) /\ ToSet(more.nodes) = N \cup {input} /\ is_backward(more, input) /\ Sound(more)
      /\ more.node[input] = rec /\ more.inputs = graph.inputs
  <2>1. rec.epoch = "Backward"
    BY DEF Node
  <2> HIDE DEF rec, more, input, output
  <2>2. more.node[input] = rec
    BY <1>6 DEF Added
  <2> QED BY <1>6, <2>1, <2>2 DEF Added, is_backward, Good
<1> DEFINE grads == add_fwd_to_out_gradient(fwd_to_out_gradient_map, op, input)
<1>8. GradsGood(more, grads)
  <2>1. GradsGood(more, fwd_to_out_gradient_map)
    BY <1>2, <1>7, GradsGrow
  <2>2. op \in ToSet(more.nodes) /\ input \in ToSet(more.nodes)
    BY <1>4, <1>7
  <2> HIDE DEF op, input, more
  <2> QED BY <1>7, <2>1, <2>2, GradsAdd
<1>9. \A n \in ToSet(todo) : n \in N
  BY <1>2, SeqElements
<1> DEFINE full == [more EXCEPT !.inputs = Append(@, input)]
<1>10. ASSUME ~graph.node[output].loss
       PROVE  /\ Good(full) /\ Grows(more, full) /\ ToSet(full.nodes) = ToSet(more.nodes)
              /\ GradsGood(full, grads) /\ Grows(graph, full) /\ NoClones(full)
  <2> DEFINE s == Append(more.inputs, input)
  <2>1. s \in Seq(Names) /\ ToSet(s) = ToSet(more.inputs) \cup {input}
    <3>1. more.inputs \in Seq(Names) /\ input \in Names
      BY <1>7, SoundIs
    <3> HIDE DEF more, input
    <3> QED BY <3>1, SeqAppend
  <2>7. InputGood(more, input)
    <3>1. rec.type = "Input" /\ rec.kind = "Gradient" /\ rec.epoch = "Backward"
      BY <1>10 DEF Node
    <3> HIDE DEF rec, more, input, output
    <3> QED BY <1>7, <3>1 DEF InputGood, is_backward
  <2>8. \A n \in ToSet(s) : n \in ToSet(more.nodes) /\ InputGood(more, n)
    <3> HIDE DEF s, more, input
    <3> QED BY <1>6, <1>7, <2>1, <2>7 DEF Good, InputsGood
  <2> HIDE DEF more, input, grads, s
  <2>2. full = [more EXCEPT !.inputs = s]
    BY DEF s
  <2> HIDE DEF full
  <2>3. Good(full) /\ Grows(more, full) /\ ToSet(full.nodes) = ToSet(more.nodes)
    BY <1>6, <2>1, <2>2, <2>8, GoodInputs
  <2>4. GradsGood(full, grads)
    BY <1>8, <2>3, GradsGrow
  <2>5. Grows(graph, full)
    BY <1>7, <2>3, GrowsTrans
  <2>6. NoClones(full)
    BY <1>6, <2>3 DEF NoClones
  <2> QED BY <2>3, <2>4, <2>5, <2>6
<1>11. /\ Good(graph') /\ NoClones(graph') /\ GradsGood(graph', fwd_to_out_gradient_map') /\ Grows(graph, graph')
  <2>1. CASE requires_grad_map[op]
    <3>1. /\ graph' = IF graph.node[output].loss THEN more ELSE full
          /\ fwd_to_out_gradient_map' = grads
      BY <2>1 DEF create_gradient_input
    <3> HIDE DEF more, full, grads, input, op
    <3> QED BY <3>1, <1>6, <1>7, <1>8, <1>10
  <2>2. CASE ~requires_grad_map[op]
    <3>1. graph' = graph /\ fwd_to_out_gradient_map' = fwd_to_out_gradient_map
      BY <2>2 DEF create_gradient_input
    <3> QED BY <1>2, <3>1 DEF Grows, Keeps
  <2> QED BY <2>1, <2>2
<1>12. /\ todo' \in Seq(ToSet(graph'.nodes))
       /\ \A n \in ToSet(todo') : is_forward(graph', n) /\ graph'.node[n].type = "Output"
  <2>1. Tail(todo) \in Seq(ToSet(graph'.nodes))
    BY <1>3, <1>11 DEF Grows, Keeps
  <2> QED BY <1>1, <1>2, <1>3, <1>9, <1>11, <2>1 DEF Grows, Keeps, is_forward
<1>13. AddingInv'
  BY <1>1, <1>2, <1>11, <1>12 DEF AddingInv
<1> HIDE DEF more, full, grads, input, op, rec, output
<1> QED BY <1>1, <1>11, <1>13, AddingStep DEF GraphInv, Adding

(* Reverse keeps the elements of a sequence.                               *)
LEMMA ReverseElements ==
  ASSUME NEW X, NEW s \in Seq(X)
  PROVE  Reverse(s) \in Seq(X) /\ ToSet(Reverse(s)) \subseteq ToSet(s)
<1> DEFINE k == Len(s)
           t == Reverse(s)
<1>1. k \in Nat /\ \A i \in 1..k : (k - i) + 1 \in 1..k
  OBVIOUS
<1>2. t = [i \in 1..k |-> s[(k - i) + 1]]
  BY DEF Reverse
<1>3. \A i \in 1..k : s[i] \in X /\ s[i] \in ToSet(s)
  BY SeqElements
<1> HIDE DEF t, k
<1>4. t \in [1..k -> X] /\ \A i \in 1..k : t[i] \in ToSet(s)
  BY <1>1, <1>2, <1>3
<1>5. t \in Seq(X) /\ Len(t) = k
  BY <1>1, <1>4
<1>6. ToSet(t) = {t[i] : i \in 1..k}
  BY <1>5, SeqElements
<1> QED BY <1>4, <1>5, <1>6 DEF t

(* The nodes of a set, in topological order.                               *)
LEMMA SortedNodes ==
  ASSUME NEW g, Sound(g), NEW S
  PROVE  /\ Only(topological_sort(g), S) \in Seq(ToSet(g.nodes))
         /\ ToSet(Only(topological_sort(g), S)) = ToSet(g.nodes) \cap S
<1>1. topological_sort(g) \in Seq(ToSet(g.nodes)) /\ ToSet(topological_sort(g)) = ToSet(g.nodes)
  BY TopologicalSortIs DEF Sound
<1> QED BY <1>1, OnlyElements

(* gradient_inputs_created keeps the invariant.                            *)
LEMMA GradientInputsCreatedInv ==
  ASSUME GraphInv, gradient_inputs_created
  PROVE  GraphInv'
<1>1. stage = "create_gradient_inputs" /\ stage' = "create_backward_graph" /\ config' = config
      /\ graph' = graph /\ fwd_to_recompute' = fwd_to_recompute
      /\ fwd_to_out_gradient_map' = fwd_to_out_gradient_map /\ todo' = BackwardOrder(graph)
  BY DEF gradient_inputs_created
<1>2. /\ Good(graph) /\ NoClones(graph) /\ fwd_to_recompute = <<>>
      /\ GradsGood(graph, fwd_to_out_gradient_map)
  BY <1>1 DEF GraphInv, AddingInv, Adding
<1> DEFINE S == {n \in DOMAIN graph.node : is_forward(graph, n)}
           order == Only(topological_sort(graph), S)
<1>3. order \in Seq(ToSet(graph.nodes)) /\ ToSet(order) = ToSet(graph.nodes) \cap S
  <2> HIDE DEF S
  <2> QED BY <1>2, SortedNodes DEF Good
<1>4. todo' = Reverse(order)
  BY <1>1 DEF BackwardOrder
<1> HIDE DEF order
<1>5. todo' \in Seq(ToSet(graph.nodes)) /\ ToSet(todo') \subseteq ToSet(order)
  BY <1>3, <1>4, ReverseElements
<1>6. \A n \in ToSet(todo') : is_forward(graph, n)
  BY <1>3, <1>5
<1>7. AddingInv'
  BY <1>1, <1>2, <1>5, <1>6 DEF AddingInv
<1> QED BY <1>1, <1>7, AddingStep DEF GraphInv, Adding

-----------------------------------------------------------------------------
(* Combining gradients: a graph and the combined node.                     *)
AddGradient(acc, grad) ==
  <<add_node(acc[1], Fresh(acc[1]), Node("PyOp", "add", "Backward"), <<acc[2], grad>>), Fresh(acc[1])>>
CombineOf(base, s) == FoldLeft(AddGradient, base, s)

Combined(g) ==
  {c \in AllGraphs \X Names : /\ Good(c[1]) /\ NoClones(c[1]) /\ Grows(g, c[1])
                              /\ c[2] \in ToSet(c[1].nodes) /\ is_backward(c[1], c[2])}

(* What is true of all results of a fold with the functions of step is     *)
(* true of those of a fold that does the same to what is in X.             *)
StepSame(n, X, step, g) ==
  \A A \in SUBSET (1..n) : (A # {} /\ g[A \ {Max(A)}] \in X) => g[A] = step[Max(A)][g[A \ {Max(A)}]]

(* Such a fold ends where the steps lead.                                  *)
LEMMA FoldReaches ==
  ASSUME NEW n \in Nat, NEW base, NEW X, NEW T, NEW step, \A A \in SUBSET (1..n) : T[A] \subseteq X,
         FoldHyp(n, T, base, step), NEW g, g[{}] = base, StepSame(n, X, step, g)
  PROVE  g[1..n] \in T[1..n]
<1>1. ASSUME NEW A \in SUBSET (1..n), A # {}, g[A \ {Max(A)}] \in T[A \ {Max(A)}] PROVE g[A] \in T[A]
  <2>1. A \ {Max(A)} \in SUBSET (1..n)
    OBVIOUS
  <2>2. g[A \ {Max(A)}] \in X
    BY <1>1, <2>1
  <2>3. g[A] = step[Max(A)][g[A \ {Max(A)}]]
    BY <1>1, <2>2 DEF StepSame
  <2> QED BY <1>1, <2>3 DEF FoldHyp
<1>2. FoldKept(n, T, g)
  BY <1>1 DEF FoldKept, FoldHyp
<1>3. \A A \in SUBSET (1..n) : g[A] \in T[A]
  BY <1>2, FoldIn
<1> QED BY <1>3

(* combine_incoming_gradients is such a fold.                              *)
LEMMA CombineFold ==
  ASSUME NEW E, NEW s \in Seq(E), NEW base, NEW X, NEW T, \A A \in SUBSET (1..Len(s)) : T[A] \subseteq X,
         FoldHyp(Len(s), T, base, [i \in 1..Len(s) |-> [t \in X |-> AddGradient(t, s[i])]])
  PROVE  CombineOf(base, s) \in T[1..Len(s)]
<1> DEFINE n == Len(s)
           step == [i \in 1..n |-> [t \in X |-> AddGradient(t, s[i])]]
           Eq(f) == f = [A \in SUBSET (DOMAIN s) |->
                           IF A = {} THEN base ELSE AddGradient(f[A \ {Max(A)}], s[Max(A)])]
           g == CHOOSE f : Eq(f)
<1>1. n \in Nat /\ DOMAIN s = 1..n
  OBVIOUS
<1>2. CombineOf(base, s) = g[DOMAIN s]
  BY DEF CombineOf, FoldLeft, MapThenFoldSet
<1>3. FoldHyp(n, T, base, step)
  OBVIOUS
<1>4. PICK f : FoldFun(n, base, step, f) /\ \A A \in SUBSET (1..n) : f[A] \in T[A]
  <2> HIDE DEF n, step
  <2> QED BY <1>1, <1>3, FoldExists
<1>5. ASSUME NEW A \in SUBSET (1..n), A # {}, NEW t \in X
      PROVE  step[Max(A)][t] = AddGradient(t, s[Max(A)])
  <2>1. Max(A) \in 1..n
    <3> HIDE DEF n
    <3> QED BY <1>1, <1>5, MaxOf
  <2> QED BY <2>1
<1>6. ASSUME NEW A \in SUBSET (1..n), A # {}
      PROVE  step[Max(A)][f[A \ {Max(A)}]] = AddGradient(f[A \ {Max(A)}], s[Max(A)])
  <2>1. f[A \ {Max(A)}] \in X
    <3> HIDE DEF n
    <3> QED BY <1>4 DEF n
  <2> HIDE DEF step, n
  <2> QED BY <1>5, <1>6, <2>1
<1>7. Eq(f)
  <2> HIDE DEF step, n
  <2> QED BY <1>1, <1>4, <1>6 DEF FoldFun
<1>8. Eq(g)
  <2> HIDE DEF Eq
  <2> QED BY <1>7
<1>9. \A A \in SUBSET (1..n) :
         g[A] = IF A = {} THEN base ELSE AddGradient(g[A \ {Max(A)}], s[Max(A)])
  <2> HIDE DEF g, n
  <2> QED BY <1>1, <1>8
<1>10. g[{}] = base /\ StepSame(n, X, step, g)
  <2>1. g[{}] = base
    <3> HIDE DEF g, n
    <3> QED BY <1>9
  <2> HIDE DEF g, n, step
  <2> QED BY <1>5, <1>9, <2>1 DEF StepSame
<1>11. g[1..n] \in T[1..n]
  <2>1. \A A \in SUBSET (1..n) : T[A] \subseteq X
    OBVIOUS
  <2> HIDE DEF g, n, step
  <2> QED BY <1>1, <1>3, <1>10, <2>1, FoldReaches
<1> QED BY <1>1, <1>2, <1>11

(* combine_incoming_gradients adds backward nodes only, and the combined   *)
(* gradient is one.                                                        *)
LEMMA CombineIs ==
  ASSUME NEW n, Good(graph), NoClones(graph), GradsGood(graph, fwd_to_out_gradient_map),
         n \in DOMAIN fwd_to_out_gradient_map
  PROVE  combine_incoming_gradients(n) \in Combined(graph)
<1> DEFINE N == ToSet(graph.nodes)
           grads == fwd_to_out_gradient_map[n]
           s == Tail(grads)
           base == <<graph, grads[1]>>
           X == Combined(graph)
           T == [A \in SUBSET (1..Len(s)) |-> X]
           step == [i \in 1..Len(s) |-> [t \in X |-> AddGradient(t, s[i])]]
<1>1. /\ grads \in Seq(Names) /\ grads # <<>>
      /\ \A m \in ToSet(grads) : m \in N /\ is_backward(graph, m)
  <2>1. PICK D \in SUBSET Names : fwd_to_out_gradient_map \in [D -> Seq(Names)]
    BY DEF GradsGood, PartialMaps
  <2> QED BY <2>1 DEF GradsGood
<1>2. /\ s \in Seq(Names) /\ Len(s) \in Nat /\ grads[1] \in Names
      /\ grads[1] \in N /\ is_backward(graph, grads[1])
      /\ \A i \in 1..Len(s) : s[i] \in N /\ is_backward(graph, s[i]) /\ ~IsClone(s[i])
  <2> HIDE DEF grads, s, N
  <2>1. /\ s \in Seq(Names) /\ grads[1] \in Names /\ grads[1] \in ToSet(grads)
        /\ ToSet(s) \subseteq ToSet(grads)
    <3> USE DEF s
    <3> QED BY <1>1, SeqHeadTail
  <2>2. \A i \in 1..Len(s) : s[i] \in ToSet(s)
    BY <2>1, SeqElements
  <2>3. Len(s) \in Nat
    BY <2>1
  <2> QED BY <1>1, <2>1, <2>2, <2>3 DEF NoClones, N
<1>3. base \in X
  <2>1. graph \in AllGraphs /\ Grows(graph, graph)
    BY DEF Good, Sound, Grows, Keeps
  <2> HIDE DEF grads
  <2> QED BY <1>2, <2>1 DEF Combined
<1>4. ASSUME NEW i \in 1..Len(s), NEW t \in X PROVE AddGradient(t, s[i]) \in X
  <2> DEFINE h == t[1]
             x == t[2]
             name == Fresh(h)
             rec == Node("PyOp", "add", "Backward")
             ops == <<x, s[i]>>
             new == add_node(h, name, rec, ops)
  <2>1. /\ Good(h) /\ NoClones(h) /\ Grows(graph, h) /\ x \in ToSet(h.nodes) /\ is_backward(h, x)
    BY DEF Combined
  <2>2. s[i] \in ToSet(h.nodes) /\ ~IsClone(s[i]) /\ ~IsClone(x)
    BY <1>2, <2>1 DEF Grows, Keeps, NoClones
  <2>3. ops \in Seq(ToSet(h.nodes)) /\ \A m \in ToSet(ops) : ~IsClone(m)
    <3> HIDE DEF h, x, s
    <3> QED BY <2>1, <2>2 DEF ToSet
  <2>4. rec \in NodeRecords /\ rec.epoch = "Backward" /\ rec.kind = "add"
    <3>1. "PyOp" \in NodeTypes /\ "add" \in Kinds /\ "Backward" \in Epochs
      BY DEF NodeTypes, Kinds, Epochs
    <3> QED BY <3>1, NodeRecord DEF Node
  <2>5. NewGood(h, rec, ops)
    <3> HIDE DEF h, rec, ops
    <3> QED BY <2>3, <2>4 DEF NewGood
  <2>6. Good(new) /\ Added(h, new, name, rec, ops) /\ name \notin ToSet(h.nodes) /\ NoClones(new)
    <3> HIDE DEF h, rec, ops
    <3> QED BY <2>1, <2>5, AddFresh
  <2>7. AddGradient(t, s[i]) = <<new, name>>
    BY DEF AddGradient
  <2> HIDE DEF h, rec, ops, new, name
  <2>8. /\ name \in ToSet(new.nodes) /\ is_backward(new, name) /\ Grows(graph, new)
    BY <2>1, <2>4, <2>6, GrowsTrans DEF Added, is_backward
  <2>9. new \in AllGraphs /\ name \in Names
    <3>1. Sound(new)
      BY <2>6 DEF Good
    <3> QED BY <2>8, <3>1, SoundIs DEF Sound
  <2> QED BY <2>6, <2>7, <2>8, <2>9 DEF Combined
<1>5. FoldHyp(Len(s), T, base, step)
  <2>1. \A A \in SUBSET (1..Len(s)) : T[A] = X /\ A \ {Max(A)} \in SUBSET (1..Len(s))
    OBVIOUS
  <2>2. \A A \in SUBSET (1..Len(s)) : A # {} => Max(A) \in 1..Len(s)
    BY <1>2, MaxOf
  <2>3. \A i \in 1..Len(s) : \A t \in X : step[i][t] \in X
    BY <1>4
  <2> HIDE DEF T, X, step, s, base
  <2>4. {} \in SUBSET (1..Len(s))
    OBVIOUS
  <2> QED BY <1>3, <2>1, <2>2, <2>3, <2>4 DEF FoldHyp
<1>6. CombineOf(base, s) \in X
  <2>1. \A A \in SUBSET (1..Len(s)) : T[A] \subseteq X
    OBVIOUS
  <2>2. T[1..Len(s)] = X
    OBVIOUS
  <2>3. FoldHyp(Len(s), T, base, [i \in 1..Len(s) |-> [t \in X |-> AddGradient(t, s[i])]])
    BY <1>5
  <2> HIDE DEF T, X, step, s, base
  <2>4. CombineOf(base, s) \in T[1..Len(s)]
    BY <1>2, <2>1, <2>3, CombineFold
  <2> QED BY <2>2, <2>4
<1>7. combine_incoming_gradients(n) = CombineOf(base, s)
  BY DEF combine_incoming_gradients, CombineOf, AddGradient, FoldLeft, MapThenFoldSet
<1> QED BY <1>6, <1>7

(* A node of the backward graph's loop is done.                            *)
LEMMA NodeDone ==
  ASSUME GraphInv, stage = "create_backward_graph", todo # <<>>, todo' = Tail(todo),
         stage' = stage, config' = config, fwd_to_recompute' = fwd_to_recompute,
         Good(graph'), NoClones(graph'), Grows(graph, graph'),
         GradsGood(graph', fwd_to_out_gradient_map')
  PROVE  GraphInv'
<1> DEFINE N == ToSet(graph.nodes)
<1>1. /\ fwd_to_recompute = <<>> /\ todo \in Seq(N)
      /\ \A n \in ToSet(todo) : is_forward(graph, n)
  BY DEF GraphInv, AddingInv, Adding
<1>2. Tail(todo) \in Seq(N) /\ ToSet(Tail(todo)) \subseteq ToSet(todo) /\ ToSet(Tail(todo)) \subseteq N
  <2> HIDE DEF N
  <2>1. Tail(todo) \in Seq(N) /\ ToSet(Tail(todo)) \subseteq ToSet(todo)
    BY <1>1, SeqHeadTail
  <2> QED BY <2>1, SeqElements
<1>3. todo' \in Seq(ToSet(graph'.nodes))
  BY <1>2 DEF Grows, Keeps
<1>4. \A n \in ToSet(todo') : is_forward(graph', n)
  BY <1>1, <1>2 DEF Grows, Keeps, is_forward
<1>5. AddingInv'
  BY <1>1, <1>3, <1>4 DEF AddingInv
<1> QED BY <1>5, AddingStep DEF GraphInv, Adding

(* What is known while the backward graph is created.                      *)
LEMMA BackwardStage ==
  ASSUME GraphInv, stage = "create_backward_graph", todo # <<>>
  PROVE  /\ Good(graph) /\ NoClones(graph) /\ GradsGood(graph, fwd_to_out_gradient_map)
         /\ Head(todo) \in ToSet(graph.nodes) /\ is_forward(graph, Head(todo))
<1>1. /\ Good(graph) /\ NoClones(graph) /\ GradsGood(graph, fwd_to_out_gradient_map)
      /\ todo \in Seq(ToSet(graph.nodes))
      /\ \A n \in ToSet(todo) : is_forward(graph, n)
  BY DEF GraphInv, AddingInv, Adding
<1>2. Head(todo) \in ToSet(graph.nodes) /\ Head(todo) \in ToSet(todo)
  BY <1>1, SeqHeadTail
<1> QED BY <1>1, <1>2

(* SkipNode keeps the invariant.                                           *)
LEMMA SkipNodeInv ==
  ASSUME GraphInv, SkipNode
  PROVE  GraphInv'
<1>1. /\ stage = "create_backward_graph" /\ todo # <<>> /\ todo' = Tail(todo)
      /\ stage' = stage /\ config' = config /\ fwd_to_recompute' = fwd_to_recompute
      /\ graph' = graph /\ fwd_to_out_gradient_map' = fwd_to_out_gradient_map
  BY DEF SkipNode
<1>2. Grows(graph, graph)
  BY DEF Grows, Keeps
<1> QED BY <1>1, <1>2, BackwardStage, NodeDone

(* The gradient of an input: what is combined, and a node that reads it.   *)
LEMMA InputGradient ==
  ASSUME NEW n, Good(graph), NoClones(graph), GradsGood(graph, fwd_to_out_gradient_map),
         n \in DOMAIN fwd_to_out_gradient_map, NEW type \in {"Queue", "Output"},
         NEW kind \in {"GradAccumulator", "none"}, NEW c, c = combine_incoming_gradients(n),
         NEW h, h = add_node(c[1], Fresh(c[1]), Node(type, kind, "Backward"), <<c[2]>>),
         NEW m, m = Fresh(c[1]) \/ m = c[2],
         NEW new, new = [fwd_to_out_gradient_map EXCEPT ![n] = <<m>>]
  PROVE  Good(h) /\ NoClones(h) /\ Grows(graph, h) /\ GradsGood(h, new)
<1> DEFINE rec == Node(type, kind, "Backward")
           x == c[2]
           name == Fresh(c[1])
<1>1. /\ Good(c[1]) /\ NoClones(c[1]) /\ Grows(graph, c[1])
      /\ x \in ToSet(c[1].nodes) /\ is_backward(c[1], x)
  BY CombineIs DEF Combined
<1>2. rec \in NodeRecords /\ rec.epoch = "Backward" /\ rec.kind # "nop"
  <2>1. type \in NodeTypes /\ kind \in Kinds /\ "Backward" \in Epochs /\ kind # "nop"
    BY DEF NodeTypes, Kinds, Epochs
  <2> QED BY <2>1, NodeRecord DEF Node
<1>3. <<x>> \in Seq(ToSet(c[1].nodes)) /\ \A y \in ToSet(<<x>>) : ~IsClone(y)
  <2> HIDE DEF x
  <2> QED BY <1>1 DEF NoClones, ToSet
<1> HIDE DEF rec, x, name
<1>4. NewGood(c[1], rec, <<x>>)
  BY <1>2, <1>3 DEF NewGood
<1>5. h = add_node(c[1], name, rec, <<x>>)
  BY DEF rec, x, name
<1>6. Good(h) /\ Added(c[1], h, name, rec, <<x>>) /\ name \notin ToSet(c[1].nodes) /\ NoClones(h)
  BY <1>1, <1>4, <1>5, AddFresh DEF name
<1>7. /\ Sound(h) /\ Grows(graph, h) /\ Grows(c[1], h)
      /\ x \in ToSet(h.nodes) /\ is_backward(h, x)
      /\ name \in ToSet(h.nodes) /\ is_backward(h, name)
  <2>1. Grows(c[1], h) /\ Grows(graph, h)
    BY <1>1, <1>2, <1>6, GrowsTrans DEF Added
  <2>2. Keeps(c[1], h)
    BY <2>1 DEF Grows
  <2> QED BY <1>1, <1>2, <1>6, <2>1, <2>2 DEF Added, is_backward, Keeps
<1>8. GradsGood(h, fwd_to_out_gradient_map)
  BY <1>7, GradsGrow
<1>9. PICK D \in SUBSET Names : fwd_to_out_gradient_map \in [D -> Seq(Names)]
  BY DEF GradsGood, PartialMaps
<1>10. m \in ToSet(h.nodes) /\ is_backward(h, m) /\ n \in ToSet(h.nodes)
  BY <1>7, <1>8 DEF GradsGood, x, name
<1> DEFINE s == <<m>>
<1>11. s \in Seq(ToSet(h.nodes)) /\ s # <<>> /\ \A y \in ToSet(s) : is_backward(h, y)
  BY <1>10 DEF ToSet
<1> HIDE DEF s
<1>12. /\ DOMAIN new = DOMAIN fwd_to_out_gradient_map \cup {n} /\ new[n] = s /\ IsMap(new)
       /\ \A y \in DOMAIN fwd_to_out_gradient_map : y # n => new[y] = fwd_to_out_gradient_map[y]
  BY <1>9 DEF IsMap, s
<1>13. GradsGood(h, new)
  BY <1>7, <1>8, <1>10, <1>11, <1>12, GradsSet
<1> QED BY <1>6, <1>7, <1>13

(* AccumulateGradient keeps the invariant.                                 *)
LEMMA AccumulateGradientInv ==
  ASSUME GraphInv, AccumulateGradient
  PROVE  GraphInv' /\ Grows(graph, graph')
<1> DEFINE n == Head(todo)
           c == combine_incoming_gradients(n)
<1>1. /\ stage = "create_backward_graph" /\ todo # <<>> /\ todo' = Tail(todo)
      /\ stage' = stage /\ config' = config /\ fwd_to_recompute' = fwd_to_recompute
      /\ n \in DOMAIN fwd_to_out_gradient_map
      /\ graph' = add_node(c[1], Fresh(c[1]), Node("Queue", "GradAccumulator", "Backward"), <<c[2]>>)
      /\ fwd_to_out_gradient_map' = [fwd_to_out_gradient_map EXCEPT ![n] = <<Fresh(c[1])>>]
  BY DEF AccumulateGradient, NeedsGradient
<1>2. Good(graph) /\ NoClones(graph) /\ GradsGood(graph, fwd_to_out_gradient_map)
  BY <1>1, BackwardStage
<1> HIDE DEF n, c
<1>3. Good(graph') /\ NoClones(graph') /\ Grows(graph, graph') /\ GradsGood(graph', fwd_to_out_gradient_map')
  BY <1>1, <1>2, InputGradient DEF c
<1> QED BY <1>1, <1>3, NodeDone

(* OutputGradient keeps the invariant.                                     *)
LEMMA OutputGradientInv ==
  ASSUME GraphInv, OutputGradient
  PROVE  GraphInv' /\ Grows(graph, graph')
<1> DEFINE n == Head(todo)
           c == combine_incoming_gradients(n)
<1>1. /\ stage = "create_backward_graph" /\ todo # <<>> /\ todo' = Tail(todo)
      /\ stage' = stage /\ config' = config /\ fwd_to_recompute' = fwd_to_recompute
      /\ n \in DOMAIN fwd_to_out_gradient_map
      /\ graph' = add_node(c[1], Fresh(c[1]), Node("Output", "none", "Backward"), <<c[2]>>)
      /\ fwd_to_out_gradient_map' = [fwd_to_out_gradient_map EXCEPT ![n] = <<c[2]>>]
  BY DEF OutputGradient, NeedsGradient
<1>2. Good(graph) /\ NoClones(graph) /\ GradsGood(graph, fwd_to_out_gradient_map)
  BY <1>1, BackwardStage
<1> HIDE DEF n, c
<1>3. Good(graph') /\ NoClones(graph') /\ Grows(graph, graph') /\ GradsGood(graph', fwd_to_out_gradient_map')
  BY <1>1, <1>2, InputGradient DEF c
<1> QED BY <1>1, <1>3, NodeDone

-----------------------------------------------------------------------------
(* The gradients of the operands of node n of graph g: a graph and the     *)
(* gradients by node.                                                      *)
AddOperandGradient(g, n, gradient, acc, i) ==
  LET made == backward(g, n, i, gradient)
  IN  <<add_node(acc[1], Fresh(acc[1]), Node("PyOp", made.kind, "Backward"), made.operands),
        add_fwd_to_out_gradient(acc[2], g.operands[n][i], Fresh(acc[1]))>>
DifferentiateOf(g, n, gradient, base, s) ==
  FoldLeft(LAMBDA acc, i : AddOperandGradient(g, n, gradient, acc, i), base, s)

(* f: the graph that the fold starts with.                                 *)
Differentiated(f) ==
  {c \in AllGraphs \X PartialMaps(Names, Seq(Names)) :
     Good(c[1]) /\ NoClones(c[1]) /\ Grows(f, c[1]) /\ GradsGood(c[1], c[2])}

(* The loop over the operands is a fold.                                   *)
LEMMA DifferentiateFold ==
  ASSUME NEW h, NEW m, NEW gradient, NEW E, NEW s \in Seq(E), NEW base, NEW X, NEW T,
         \A A \in SUBSET (1..Len(s)) : T[A] \subseteq X,
         FoldHyp(Len(s), T, base, [i \in 1..Len(s) |-> [t \in X |-> AddOperandGradient(h, m, gradient, t, s[i])]])
  PROVE  DifferentiateOf(h, m, gradient, base, s) \in T[1..Len(s)]
<1> DEFINE n == Len(s)
           step == [i \in 1..n |-> [t \in X |-> AddOperandGradient(h, m, gradient, t, s[i])]]
           Eq(f) == f = [A \in SUBSET (DOMAIN s) |->
                           IF A = {} THEN base ELSE AddOperandGradient(h, m, gradient, f[A \ {Max(A)}], s[Max(A)])]
           g == CHOOSE f : Eq(f)
<1>1. n \in Nat /\ DOMAIN s = 1..n
  OBVIOUS
<1>2. DifferentiateOf(h, m, gradient, base, s) = g[DOMAIN s]
  BY DEF DifferentiateOf, FoldLeft, MapThenFoldSet
<1>3. FoldHyp(n, T, base, step)
  OBVIOUS
<1>4. PICK f : FoldFun(n, base, step, f) /\ \A A \in SUBSET (1..n) : f[A] \in T[A]
  <2> HIDE DEF n, step
  <2> QED BY <1>1, <1>3, FoldExists
<1>5. ASSUME NEW A \in SUBSET (1..n), A # {}, NEW t \in X
      PROVE  step[Max(A)][t] = AddOperandGradient(h, m, gradient, t, s[Max(A)])
  <2>1. Max(A) \in 1..n
    <3> HIDE DEF n
    <3> QED BY <1>1, <1>5, MaxOf
  <2> QED BY <2>1
<1>6. ASSUME NEW A \in SUBSET (1..n), A # {}
      PROVE  step[Max(A)][f[A \ {Max(A)}]] = AddOperandGradient(h, m, gradient, f[A \ {Max(A)}], s[Max(A)])
  <2>1. f[A \ {Max(A)}] \in X
    <3> HIDE DEF n
    <3> QED BY <1>4 DEF n
  <2> HIDE DEF step, n
  <2> QED BY <1>5, <1>6, <2>1
<1>7. Eq(f)
  <2> HIDE DEF step, n
  <2> QED BY <1>1, <1>4, <1>6 DEF FoldFun
<1>8. Eq(g)
  <2> HIDE DEF Eq
  <2> QED BY <1>7
<1>9. \A A \in SUBSET (1..n) :
         g[A] = IF A = {} THEN base ELSE AddOperandGradient(h, m, gradient, g[A \ {Max(A)}], s[Max(A)])
  <2> HIDE DEF g, n
  <2> QED BY <1>1, <1>8
<1>10. g[{}] = base /\ StepSame(n, X, step, g)
  <2>1. g[{}] = base
    <3> HIDE DEF g, n
    <3> QED BY <1>9
  <2> HIDE DEF g, n, step
  <2> QED BY <1>5, <1>9, <2>1 DEF StepSame
<1>11. g[1..n] \in T[1..n]
  <2>1. \A A \in SUBSET (1..n) : T[A] \subseteq X
    OBVIOUS
  <2> HIDE DEF g, n, step
  <2> QED BY <1>1, <1>3, <1>10, <2>1, FoldReaches
<1> QED BY <1>1, <1>2, <1>11

(* A fold whose steps stay in a set.                                       *)
LEMMA ConstFold ==
  ASSUME NEW n \in Nat, NEW X, NEW base \in X, NEW step, \A i \in 1..n : \A t \in X : step[i][t] \in X
  PROVE  FoldHyp(n, [A \in SUBSET (1..n) |-> X], base, step)
<1> DEFINE T == [A \in SUBSET (1..n) |-> X]
<1>1. \A A \in SUBSET (1..n) : T[A] = X /\ A \ {Max(A)} \in SUBSET (1..n)
  OBVIOUS
<1>2. \A A \in SUBSET (1..n) : A # {} => Max(A) \in 1..n
  BY MaxOf
<1>3. {} \in SUBSET (1..n)
  OBVIOUS
<1> HIDE DEF T
<1>4. FoldHyp(n, T, base, step)
  BY <1>1, <1>2, <1>3 DEF FoldHyp
<1> QED BY <1>4 DEF T

(* The node that the backward of an op creates for an operand.             *)
LEMMA BackwardIs ==
  ASSUME NEW g, Good(g), NoClones(g), NEW n \in ToSet(g.nodes), is_forward(g, n),
         NEW h, Good(h), NoClones(h), Grows(g, h), NEW gradient \in ToSet(h.nodes), is_backward(h, gradient),
         NEW i \in 1..Len(g.operands[n])
  PROVE  NewGood(h, Node("PyOp", backward(g, n, i, gradient).kind, "Backward"),
                 backward(g, n, i, gradient).operands)
<1> DEFINE made == backward(g, n, i, gradient)
           rec == Node("PyOp", made.kind, "Backward")
           M == ToSet(h.nodes)
<1>1. n \in M /\ gradient \in M /\ \A x \in M : ~IsClone(x)
  BY DEF Grows, Keeps, NoClones
<1>2. ~is_forward(h, gradient)
  BY DEF is_forward, is_backward
<1>3. CASE g.node[n].kind = "multiply"
  <2>1. Len(g.operands[n]) = 2 /\ 3 - i \in 1..Len(g.operands[n])
    <3>1. Len(g.operands[n]) = 2
      BY <1>3 DEF Good, NodeGood, ForwardGood
    <3> QED BY <3>1
  <2> DEFINE other == g.operands[n][3 - i]
  <2>2. other \in M
    <3>1. other \in ToSet(g.operands[n]) /\ ToSet(g.operands[n]) \subseteq ToSet(g.nodes)
      BY <2>1, SoundOperands DEF Good
    <3> QED BY <3>1 DEF Grows, Keeps
  <2>3. made = [kind |-> "multiply", operands |-> <<gradient, other>>]
    BY <1>3 DEF backward
  <2> HIDE DEF other, made, M
  <2>4. made.kind = "multiply" /\ made.operands = <<gradient, other>>
    BY <2>3
  <2>5. made.operands \in Seq(M) /\ \A x \in ToSet(made.operands) : ~IsClone(x)
    BY <1>1, <2>2, <2>4 DEF ToSet
  <2>6. rec \in NodeRecords /\ rec.epoch = "Backward" /\ rec.kind # "nop"
    <3>1. made.kind \in Kinds /\ "PyOp" \in NodeTypes /\ "Backward" \in Epochs /\ made.kind # "nop"
      BY <2>4 DEF NodeTypes, Kinds, Epochs
    <3> QED BY <3>1, NodeRecord DEF Node
  <2> HIDE DEF rec
  <2>7. NewGood(h, rec, made.operands)
    BY <2>5, <2>6 DEF NewGood, M
  <2> QED BY <2>7 DEF rec, made
<1>4. CASE g.node[n].kind = "exp"
  <2>1. made = [kind |-> "multiply", operands |-> <<n, gradient>>]
    BY <1>4 DEF backward
  <2> HIDE DEF made, M
  <2>2. made.kind = "multiply" /\ made.operands = <<n, gradient>>
    BY <2>1
  <2>3. made.operands \in Seq(M) /\ \A x \in ToSet(made.operands) : ~IsClone(x)
    BY <1>1, <2>2 DEF ToSet
  <2>4. rec \in NodeRecords /\ rec.epoch = "Backward" /\ rec.kind # "nop"
    <3>1. made.kind \in Kinds /\ "PyOp" \in NodeTypes /\ "Backward" \in Epochs /\ made.kind # "nop"
      BY <2>2 DEF NodeTypes, Kinds, Epochs
    <3> QED BY <3>1, NodeRecord DEF Node
  <2> HIDE DEF rec
  <2>5. NewGood(h, rec, made.operands)
    BY <2>3, <2>4 DEF NewGood, M
  <2> QED BY <2>5 DEF rec, made
<1>5. CASE g.node[n].kind # "multiply" /\ g.node[n].kind # "exp"
  <2>1. made = [kind |-> "nop", operands |-> <<gradient>>]
    BY <1>5 DEF backward
  <2> HIDE DEF made, M
  <2>2. made.kind = "nop" /\ made.operands = <<gradient>>
    BY <2>1
  <2>3. made.operands \in Seq(M) /\ ToSet(made.operands) = {gradient} /\ Len(made.operands) = 1
    BY <1>1, <2>2 DEF ToSet
  <2>4. rec \in NodeRecords /\ rec.epoch = "Backward" /\ rec.type = "PyOp"
    <3>1. made.kind \in Kinds /\ "PyOp" \in NodeTypes /\ "Backward" \in Epochs
      BY <2>2 DEF NodeTypes, Kinds, Epochs
    <3> QED BY <3>1, NodeRecord DEF Node
  <2>5. /\ \A x \in ToSet(made.operands) : ~IsClone(x)
        /\ \A x \in ToSet(made.operands) : ~is_forward(h, x)
    BY <1>1, <1>2, <2>3
  <2> HIDE DEF rec
  <2>6. NewGood(h, rec, made.operands)
    BY <2>3, <2>4, <2>5 DEF NewGood, M
  <2> QED BY <2>6 DEF rec, made
<1> QED BY <1>3, <1>4, <1>5

(* The loop over the operands adds backward nodes only, and registers      *)
(* them as gradients.                                                      *)
LEMMA DifferentiateIs ==
  ASSUME NEW g, Good(g), NoClones(g), NEW n \in ToSet(g.nodes), is_forward(g, n),
         NEW f, Good(f), NoClones(f), Grows(g, f), NEW gradient \in ToSet(f.nodes), is_backward(f, gradient),
         NEW grads, GradsGood(f, grads), NEW s \in Seq(1..Len(g.operands[n]))
  PROVE  DifferentiateOf(g, n, gradient, <<f, grads>>, s) \in Differentiated(f)
<1> DEFINE X == Differentiated(f)
           T == [A \in SUBSET (1..Len(s)) |-> X]
           base == <<f, grads>>
           step == [i \in 1..Len(s) |-> [t \in X |-> AddOperandGradient(g, n, gradient, t, s[i])]]
<1>1. base \in X
  <2>1. f \in AllGraphs /\ Grows(f, f) /\ grads \in PartialMaps(Names, Seq(Names))
    BY DEF Good, Sound, Grows, Keeps, GradsGood
  <2> QED BY <2>1 DEF Differentiated
<1>2. ASSUME NEW i \in 1..Len(g.operands[n]), NEW t \in X
      PROVE  AddOperandGradient(g, n, gradient, t, i) \in X
  <2> DEFINE h == t[1]
             old == t[2]
             made == backward(g, n, i, gradient)
             rec == Node("PyOp", made.kind, "Backward")
             name == Fresh(h)
             new == add_node(h, name, rec, made.operands)
             more == add_fwd_to_out_gradient(old, g.operands[n][i], name)
  <2>1. Good(h) /\ NoClones(h) /\ Grows(f, h) /\ GradsGood(h, old)
    BY DEF Differentiated
  <2>2. Grows(g, h) /\ gradient \in ToSet(h.nodes) /\ is_backward(h, gradient)
    <3>1. Keeps(f, h)
      BY <2>1 DEF Grows
    <3> QED BY <2>1, <3>1, GrowsTrans DEF Keeps, is_backward
  <2>3. NewGood(h, rec, made.operands)
    <3> HIDE DEF h
    <3> QED BY <2>1, <2>2, BackwardIs
  <2>4. rec.epoch = "Backward"
    BY DEF Node
  <2>5. Good(new) /\ Added(h, new, name, rec, made.operands) /\ name \notin ToSet(h.nodes) /\ NoClones(new)
    <3> HIDE DEF h, rec, made
    <3> QED BY <2>1, <2>3, AddFresh
  <2>6. AddOperandGradient(g, n, gradient, t, i) = <<new, more>>
    BY DEF AddOperandGradient
  <2> HIDE DEF h, rec, made, new, name
  <2>7. /\ Sound(new) /\ Grows(h, new) /\ Grows(f, new) /\ name \in ToSet(new.nodes) /\ is_backward(new, name)
    BY <2>1, <2>4, <2>5, GrowsTrans DEF Added, is_backward
  <2>8. g.operands[n][i] \in ToSet(new.nodes)
    <3>1. g.operands[n][i] \in ToSet(g.operands[n]) /\ ToSet(g.operands[n]) \subseteq ToSet(g.nodes)
      BY SoundOperands DEF Good
    <3> QED BY <2>2, <2>7, <3>1 DEF Grows, Keeps
  <2>9. GradsGood(new, old)
    BY <2>1, <2>7, GradsGrow
  <2>10. GradsGood(new, more)
    BY <2>7, <2>8, <2>9, GradsAdd
  <2>11. new \in AllGraphs /\ more \in PartialMaps(Names, Seq(Names))
    BY <2>7, <2>10 DEF Sound, GradsGood
  <2> HIDE DEF more
  <2> QED BY <2>5, <2>6, <2>7, <2>10, <2>11 DEF Differentiated
<1>3. Len(s) \in Nat /\ \A i \in 1..Len(s) : s[i] \in 1..Len(g.operands[n])
  OBVIOUS
<1>4. \A i \in 1..Len(s) : \A t \in X : step[i][t] \in X
  BY <1>2, <1>3
<1>5. FoldHyp(Len(s), T, base, step)
  <2> HIDE DEF X, base, step
  <2> QED BY <1>1, <1>3, <1>4, ConstFold
<1>6. DifferentiateOf(g, n, gradient, base, s) \in X
  <2>1. \A A \in SUBSET (1..Len(s)) : T[A] \subseteq X
    OBVIOUS
  <2>2. T[1..Len(s)] = X
    OBVIOUS
  <2>3. FoldHyp(Len(s), T, base, [i \in 1..Len(s) |-> [t \in X |-> AddOperandGradient(g, n, gradient, t, s[i])]])
    BY <1>5
  <2> HIDE DEF T, X, step, base
  <2>4. DifferentiateOf(g, n, gradient, base, s) \in T[1..Len(s)]
    BY <2>1, <2>3, DifferentiateFold
  <2> QED BY <2>2, <2>4
<1> QED BY <1>6

(* Differentiate keeps the invariant.                                      *)
LEMMA DifferentiateInv ==
  ASSUME GraphInv, Differentiate
  PROVE  GraphInv' /\ Grows(graph, graph')
<1> DEFINE n == Head(todo)
           ports == DOMAIN graph.operands[n]
           edges == Only([i \in ports |-> i], {i \in ports : requires_grad_map[graph.operands[n][i]]})
           c == combine_incoming_gradients(n)
           grads == [fwd_to_out_gradient_map EXCEPT ![n] = <<c[2]>>]
           done == DifferentiateOf(graph, n, c[2], <<c[1], grads>>, edges)
<1>1. /\ stage = "create_backward_graph" /\ todo # <<>> /\ todo' = Tail(todo)
      /\ stage' = stage /\ config' = config /\ fwd_to_recompute' = fwd_to_recompute
      /\ n \in DOMAIN fwd_to_out_gradient_map
  BY DEF Differentiate, NeedsGradient
<1>2. graph' = done[1] /\ fwd_to_out_gradient_map' = done[2]
  BY DEF Differentiate, DifferentiateOf, AddOperandGradient, FoldLeft, MapThenFoldSet
<1>3. /\ Good(graph) /\ NoClones(graph) /\ GradsGood(graph, fwd_to_out_gradient_map)
      /\ n \in ToSet(graph.nodes) /\ is_forward(graph, n)
  BY <1>1, BackwardStage
<1> HIDE DEF n, c
<1>4. /\ Good(c[1]) /\ NoClones(c[1]) /\ Grows(graph, c[1])
      /\ c[2] \in ToSet(c[1].nodes) /\ is_backward(c[1], c[2])
  BY <1>1, <1>3, CombineIs DEF Combined, c
<1>5. edges \in Seq(1..Len(graph.operands[n]))
  <2> DEFINE k == Len(graph.operands[n])
             all == [i \in 1..k |-> i]
             S == {i \in ports : requires_grad_map[graph.operands[n][i]]}
  <2>1. ports = 1..k /\ k \in Nat
    BY <1>3, SoundOperands DEF Good
  <2> HIDE DEF k, S
  <2>2. all \in Seq(1..k)
    BY <2>1
  <2>3. Only(all, S) \in Seq(1..k)
    <3> HIDE DEF all
    <3> QED BY <2>2, OnlyElements
  <2>4. edges = Only(all, S)
    <3>1. [i \in ports |-> i] = all
      BY <2>1
    <3> HIDE DEF ports, all
    <3> QED BY <3>1 DEF S
  <2> QED BY <2>3, <2>4 DEF k
<1>6. GradsGood(c[1], grads)
  <2>1. GradsGood(c[1], fwd_to_out_gradient_map)
    BY <1>3, <1>4, GradsGrow
  <2>2. PICK D \in SUBSET Names : fwd_to_out_gradient_map \in [D -> Seq(Names)]
    BY <1>3 DEF GradsGood, PartialMaps
  <2> DEFINE s == <<c[2]>>
  <2>3. s \in Seq(ToSet(c[1].nodes)) /\ s # <<>> /\ \A y \in ToSet(s) : is_backward(c[1], y)
    BY <1>4 DEF ToSet
  <2> HIDE DEF s
  <2>4. grads = [fwd_to_out_gradient_map EXCEPT ![n] = s]
    BY DEF s
  <2> HIDE DEF grads
  <2>5. /\ DOMAIN grads = DOMAIN fwd_to_out_gradient_map \cup {n} /\ grads[n] = s /\ IsMap(grads)
        /\ \A y \in DOMAIN fwd_to_out_gradient_map : y # n => grads[y] = fwd_to_out_gradient_map[y]
    BY <1>1, <2>2, <2>4 DEF IsMap
  <2>6. n \in ToSet(c[1].nodes) /\ Sound(c[1])
    BY <1>3, <1>4 DEF Grows, Keeps, Good
  <2> DEFINE f == c[1]
             old == fwd_to_out_gradient_map
  <2>7. /\ Sound(f) /\ GradsGood(f, old) /\ n \in ToSet(f.nodes)
        /\ s \in Seq(ToSet(f.nodes)) /\ s # <<>> /\ \A m \in ToSet(s) : is_backward(f, m)
        /\ DOMAIN grads = DOMAIN old \cup {n} /\ grads[n] = s /\ IsMap(grads)
        /\ \A y \in DOMAIN old : y # n => grads[y] = old[y]
    BY <2>1, <2>3, <2>5, <2>6
  <2> HIDE DEF f, old
  <2>8. GradsGood(f, grads)
    BY <2>7, GradsSet
  <2> QED BY <2>8 DEF f
<1>7. done \in Differentiated(c[1])
  <2> HIDE DEF edges, grads
  <2> QED BY <1>3, <1>4, <1>5, <1>6, DifferentiateIs
<1> HIDE DEF done
<1>8. Good(graph') /\ NoClones(graph') /\ Grows(c[1], graph') /\ GradsGood(graph', fwd_to_out_gradient_map')
  BY <1>2, <1>7 DEF Differentiated
<1>9. Grows(graph, graph')
  BY <1>4, <1>8, GrowsTrans
<1> QED BY <1>1, <1>8, <1>9, NodeDone

-----------------------------------------------------------------------------
(* The optimizer graph.                                                    *)

(* A name with a suffix more is a name, with the same number.              *)
LEMMA SuffixedIs ==
  ASSUME NEW n \in Names, NEW tag \in Tags
  PROVE  /\ Suffixed(n, tag) \in Names /\ Suffixed(n, tag)[1] = n[1]
         /\ Suffixed(n, tag)[2] # <<>> /\ Last(Suffixed(n, tag)[2]) = tag
         /\ tag # "recompute" => ~IsClone(Suffixed(n, tag))
<1>1. n[1] \in Nat /\ n[2] \in Seq(Tags)
  BY DEF Names
<1> DEFINE k == n[1]
           s == n[2]
           t == Append(s, tag)
<1>2. t \in Seq(Tags) /\ t[Len(s) + 1] = tag /\ Len(t) = Len(s) + 1 /\ Len(s) \in Nat
  <2> HIDE DEF s
  <2> QED BY <1>1 DEF s
<1>3. Suffixed(n, tag) = <<k, t>>
  BY DEF Suffixed
<1> HIDE DEF k, t, s
<1>4. <<k, t>> \in Nat \X Seq(Tags)
  BY <1>1, <1>2 DEF k
<1>5. <<k, t>>[1] = k /\ <<k, t>>[2] = t
  OBVIOUS
<1>6. tag # "recompute" => t # <<"recompute">>
  <2> SUFFICES ASSUME tag # "recompute", t = <<"recompute">> PROVE FALSE
    OBVIOUS
  <2>1. Len(t) = 1 /\ t[1] = "recompute"
    OBVIOUS
  <2>2. Len(s) + 1 = 1
    BY <1>2, <2>1
  <2> QED BY <1>2, <2>1, <2>2
<1>7. t # <<>> /\ Last(t) = tag
  <2>1. t # <<>>
    BY <1>2
  <2> QED BY <1>2, <2>1 DEF Last
<1> QED BY <1>3, <1>4, <1>5, <1>6, <1>7 DEF Names, IsClone, k

(* An input of the optimizer is added to a good graph.                     *)
LEMMA OptimizerInputIs ==
  ASSUME NEW g, Good(g), NoClones(g), NEW name \in Names, ~IsClone(name), NameGood(name)
  PROVE  /\ Good(OptimizerInput(g, name)) /\ NoClones(OptimizerInput(g, name))
         /\ Grows(g, OptimizerInput(g, name)) /\ name \in ToSet(OptimizerInput(g, name).nodes)
<1> DEFINE rec == Node("Input", "OptimizerParameter", "Optimizer")
           h == OptimizerInput(g, name)
<1>1. rec \in NodeRecords /\ rec.epoch = "Optimizer" /\ rec.kind # "nop"
  <2>1. "Input" \in NodeTypes /\ "OptimizerParameter" \in Kinds /\ "Optimizer" \in Epochs
    BY DEF NodeTypes, Kinds, Epochs
  <2> QED BY <2>1, NodeRecord DEF Node
<1>2. h = add_node(g, name, rec, <<>>)
  BY DEF OptimizerInput
<1>3. <<>> \in Seq(ToSet(g.nodes)) /\ ToSet(<<>>) = {}
  BY DEF ToSet
<1> HIDE DEF rec, h
<1>4. Added(g, h, name, rec, <<>>)
  BY <1>1, <1>2, <1>3, AddNode DEF Good
<1>5. ASSUME name \notin ToSet(g.nodes) PROVE NodeGood(h, name)
  <2>1. h.node[name] = rec /\ h.operands[name] = <<>>
    BY <1>4, <1>5 DEF Added
  <2>2. h.node[name].epoch = "Optimizer" /\ h.node[name].kind # "nop"
    BY <1>1, <2>1
  <2> QED BY <1>3, <2>1, <2>2
          DEF NodeGood, NopGood, ForwardGood, CloneGood, OtherGood, is_forward
<1>6. Good(h) /\ Grows(g, h)
  <2>1. \A m \in ToSet(<<>>) : m[1] < name[1]
    BY <1>3
  <2>2. rec.epoch # "Forward"
    BY <1>1
  <2> QED BY <1>1, <1>2, <1>3, <1>5, <2>1, <2>2, AddGood
<1> QED BY <1>4, <1>6 DEF Added, NoClones, h

(* An op of the optimizer is added to a good graph.                        *)
LEMMA OptimizerOpIs ==
  ASSUME NEW g, Good(g), NoClones(g), NEW kind \in {"add", "multiply", "subtract"},
         NEW x \in ToSet(g.nodes), NEW y \in ToSet(g.nodes)
  PROVE  LET h == OptimizerOp(g, kind, <<x, y>>)
         IN  /\ Good(h) /\ NoClones(h) /\ Grows(g, h)
             /\ Newest(h) \in ToSet(h.nodes) /\ is_optimizer(h, Newest(h))
<1> DEFINE rec == Node("PyOp", kind, "Optimizer")
           ops == <<x, y>>
           h == add_node(g, Fresh(g), rec, ops)
<1>1. rec \in NodeRecords /\ rec.epoch = "Optimizer" /\ rec.kind # "nop"
  <2>1. "PyOp" \in NodeTypes /\ kind \in Kinds /\ "Optimizer" \in Epochs /\ kind # "nop"
    BY DEF NodeTypes, Kinds, Epochs
  <2> QED BY <2>1, NodeRecord DEF Node
<1>2. ops \in Seq(ToSet(g.nodes)) /\ \A m \in ToSet(ops) : ~IsClone(m)
  BY DEF ToSet, NoClones
<1> HIDE DEF rec, ops
<1>3. NewGood(g, rec, ops)
  BY <1>1, <1>2 DEF NewGood
<1>4. Good(h) /\ Added(g, h, Fresh(g), rec, ops) /\ Fresh(g) \notin ToSet(g.nodes) /\ NoClones(h)
  BY <1>3, AddFresh
<1>5. OptimizerOp(g, kind, <<x, y>>) = h
  BY DEF OptimizerOp, rec, ops
<1> HIDE DEF h
<1>6. Newest(h) = Fresh(g)
  BY <1>4 DEF Added, Newest
<1> QED BY <1>1, <1>4, <1>5, <1>6 DEF Added, is_optimizer

(* Loopback edges of optimizer ops leave a good graph good.                *)
LEMMA GoodLoopback ==
  ASSUME NEW g, Good(g), NEW L, \A e \in L : e \in Names \X Names /\ e[1] \in ToSet(g.nodes) /\ is_optimizer(g, e[1]),
         NEW h, h = [g EXCEPT !.loopback = @ \cup L]
  PROVE  Good(h) /\ Grows(g, h) /\ ToSet(h.nodes) = ToSet(g.nodes)
<1>1. g \in AllGraphs /\ g.loopback \in SUBSET (Names \X Names)
  BY DEF Good, Sound, AllGraphs
<1> DEFINE M == g.loopback \cup L
<1>2. M \in SUBSET (Names \X Names) /\ h = [g EXCEPT !.loopback = M]
  BY <1>1
<1>3. \A e \in M : e[1] \in ToSet(g.nodes) /\ is_optimizer(g, e[1])
  BY DEF Good, LoopbackGood
<1> HIDE DEF M
<1>4. /\ h.nodes = g.nodes /\ h.node = g.node /\ h.operands = g.operands /\ h.loopback = M
      /\ h.outputs = g.outputs /\ h.inputs = g.inputs /\ h \in AllGraphs
  BY <1>1, <1>2 DEF AllGraphs
<1>5. Dag(h)
  BY <1>4 DEF Good, Sound, Dag, Numbered
<1>6. Sound(h) /\ Grows(g, h)
  BY <1>4, <1>5 DEF Good, Sound, Grows, Keeps
<1>7. LoopbackGood(h)
  BY <1>3, <1>4 DEF LoopbackGood, is_optimizer
<1>8. InputsGood(h)
  BY <1>4 DEF Good, InputsGood, InputGood, is_forward, is_backward
<1> QED BY <1>4, <1>6, <1>7, <1>8, GoodGrows

(* The elements of a pair.                                                 *)
LEMMA PairIs ==
  ASSUME NEW X, NEW Y, NEW x \in X, NEW y \in Y
  PROVE  <<x, y>> \in X \X Y /\ <<x, y>>[1] = x
OBVIOUS

(* SGD adds optimizer nodes to a good graph.                               *)
LEMMA SGDIs ==
  ASSUME NEW g, Good(g), NoClones(g), NEW parameter \in ToSet(g.nodes), NEW gradient \in ToSet(g.nodes)
  PROVE  LET h == SGD_op_trace(g, parameter, gradient)
         IN  Good(h) /\ NoClones(h) /\ Grows(g, h)
<1> DEFINE lr == Suffixed(parameter, "lr")
           g1 == OptimizerInput(g, lr)
           times == OptimizerOp(g1, "multiply", <<gradient, lr>>)
           new == OptimizerOp(times, "subtract", <<parameter, Newest(times)>>)
           L == {<<Newest(new), parameter>>}
           h == [new EXCEPT !.loopback = @ \cup L]
<1>1. SGD_op_trace(g, parameter, gradient) = h
  BY DEF SGD_op_trace
<1>2. lr \in Names /\ ~IsClone(lr) /\ NameGood(lr) /\ parameter \in Names
  <2>1. "lr" \in Tags /\ parameter \in Names
    BY SoundIs DEF Tags, Good
  <2> QED BY <2>1, SuffixedIs DEF NameGood
<1> HIDE DEF lr
<1>3. Good(g1) /\ NoClones(g1) /\ Grows(g, g1) /\ lr \in ToSet(g1.nodes)
  BY <1>2, OptimizerInputIs
<1>4. gradient \in ToSet(g1.nodes) /\ parameter \in ToSet(g1.nodes)
  BY <1>3 DEF Grows, Keeps
<1> HIDE DEF g1
<1>5. Good(times) /\ NoClones(times) /\ Grows(g1, times) /\ Newest(times) \in ToSet(times.nodes)
  BY <1>3, <1>4, OptimizerOpIs
<1>6. parameter \in ToSet(times.nodes)
  BY <1>4, <1>5 DEF Grows, Keeps
<1> HIDE DEF times
<1>7. Good(new) /\ NoClones(new) /\ Grows(times, new)
      /\ Newest(new) \in ToSet(new.nodes) /\ is_optimizer(new, Newest(new))
  BY <1>5, <1>6, OptimizerOpIs
<1> HIDE DEF new
<1>8. \A e \in L : e \in Names \X Names /\ e[1] \in ToSet(new.nodes) /\ is_optimizer(new, e[1])
  <2>1. Newest(new) \in Names
    BY <1>7, SoundIs DEF Good
  <2> QED BY <1>2, <1>7, <2>1, PairIs
<1> HIDE DEF L
<1>9. Good(h) /\ Grows(new, h) /\ ToSet(h.nodes) = ToSet(new.nodes)
  BY <1>7, <1>8, GoodLoopback
<1> HIDE DEF h
<1>10. Grows(g, h)
  <2>1. Grows(g, times)
    BY <1>3, <1>5, GrowsTrans
  <2>2. Grows(g, new)
    BY <1>7, <2>1, GrowsTrans
  <2> QED BY <1>9, <2>2, GrowsTrans
<1> QED BY <1>1, <1>7, <1>9, <1>10 DEF NoClones

(* Adam adds optimizer nodes to a good graph.                              *)
LEMMA AdamIs ==
  ASSUME NEW g, Good(g), NoClones(g), NEW parameter \in ToSet(g.nodes), NEW gradient \in ToSet(g.nodes)
  PROVE  LET h == Adam_op_trace(g, parameter, gradient)
         IN  Good(h) /\ NoClones(h) /\ Grows(g, h)
<1> DEFINE lr == Suffixed(parameter, "lr")
           mean == Suffixed(parameter, "mean")
           g1 == OptimizerInput(g, mean)
           updated == OptimizerOp(g1, "add", <<mean, gradient>>)
           g2 == OptimizerInput(updated, lr)
           delta == OptimizerOp(g2, "multiply", <<Newest(updated), lr>>)
           new == OptimizerOp(delta, "subtract", <<parameter, Newest(delta)>>)
           L == {<<Newest(new), parameter>>, <<Newest(updated), mean>>}
           h == [new EXCEPT !.loopback = @ \cup L]
<1>1. Adam_op_trace(g, parameter, gradient) = h
  BY DEF Adam_op_trace
<1>2. /\ lr \in Names /\ ~IsClone(lr) /\ NameGood(lr) /\ parameter \in Names
      /\ mean \in Names /\ ~IsClone(mean) /\ NameGood(mean)
  <2>1. "lr" \in Tags /\ "mean" \in Tags /\ parameter \in Names
    BY SoundIs DEF Tags, Good
  <2>2. lr \in Names /\ ~IsClone(lr) /\ NameGood(lr)
    BY <2>1, SuffixedIs DEF NameGood
  <2>3. mean \in Names /\ ~IsClone(mean) /\ NameGood(mean)
    BY <2>1, SuffixedIs DEF NameGood
  <2> QED BY <2>1, <2>2, <2>3
<1> HIDE DEF lr, mean
<1>3. Good(g1) /\ NoClones(g1) /\ Grows(g, g1) /\ mean \in ToSet(g1.nodes)
  BY <1>2, OptimizerInputIs
<1>4. gradient \in ToSet(g1.nodes) /\ parameter \in ToSet(g1.nodes)
  BY <1>3 DEF Grows, Keeps
<1> HIDE DEF g1
<1>5. Good(updated) /\ NoClones(updated) /\ Grows(g1, updated)
      /\ Newest(updated) \in ToSet(updated.nodes) /\ is_optimizer(updated, Newest(updated))
  BY <1>3, <1>4, OptimizerOpIs
<1> HIDE DEF updated
<1>6. Good(g2) /\ NoClones(g2) /\ Grows(updated, g2) /\ lr \in ToSet(g2.nodes)
  BY <1>2, <1>5, OptimizerInputIs
<1> HIDE DEF g2
<1>7. Newest(updated) \in ToSet(g2.nodes) /\ parameter \in ToSet(g2.nodes)
  BY <1>4, <1>5, <1>6 DEF Grows, Keeps
<1>8. Good(delta) /\ NoClones(delta) /\ Grows(g2, delta) /\ Newest(delta) \in ToSet(delta.nodes)
  BY <1>6, <1>7, OptimizerOpIs
<1>9. parameter \in ToSet(delta.nodes)
  BY <1>7, <1>8 DEF Grows, Keeps
<1> HIDE DEF delta
<1>10. Good(new) /\ NoClones(new) /\ Grows(delta, new)
       /\ Newest(new) \in ToSet(new.nodes) /\ is_optimizer(new, Newest(new))
  BY <1>8, <1>9, OptimizerOpIs
<1> HIDE DEF new
<1>11. Grows(updated, new)
  <2>1. Grows(updated, delta)
    BY <1>6, <1>8, GrowsTrans
  <2> QED BY <1>10, <2>1, GrowsTrans
<1>12. Newest(updated) \in ToSet(new.nodes) /\ is_optimizer(new, Newest(updated))
  BY <1>5, <1>11 DEF Grows, Keeps, is_optimizer
<1>13. \A e \in L : e \in Names \X Names /\ e[1] \in ToSet(new.nodes) /\ is_optimizer(new, e[1])
  <2>1. Newest(new) \in Names /\ Newest(updated) \in Names
    BY <1>10, <1>12, SoundIs DEF Good
  <2> QED BY <1>2, <1>10, <1>12, <2>1, PairIs
<1> HIDE DEF L
<1>14. Good(h) /\ Grows(new, h) /\ ToSet(h.nodes) = ToSet(new.nodes)
  BY <1>10, <1>13, GoodLoopback
<1> HIDE DEF h
<1>15. Grows(g, h)
  <2>1. Grows(g, updated)
    BY <1>3, <1>5, GrowsTrans
  <2>2. Grows(g, new)
    BY <1>11, <2>1, GrowsTrans
  <2> QED BY <1>14, <2>2, GrowsTrans
<1> QED BY <1>1, <1>10, <1>14, <1>15 DEF NoClones

(* create_optimizer_graph keeps the invariant.                             *)
LEMMA OptimizerGraphInv ==
  ASSUME GraphInv, create_optimizer_graph
  PROVE  GraphInv' /\ Grows(graph, graph')
<1> DEFINE parameter == Head(todo)
           gradient == fwd_to_out_gradient_map[parameter][1]
           N == ToSet(graph.nodes)
<1>1. /\ stage = "create_optimizer_graph" /\ todo # <<>> /\ todo' = Tail(todo) /\ stage' = stage
      /\ config' = config /\ fwd_to_recompute' = fwd_to_recompute
      /\ fwd_to_out_gradient_map' = fwd_to_out_gradient_map
      /\ parameter \in DOMAIN fwd_to_out_gradient_map
      /\ graph' = IF config.optimizer = "SGD" THEN SGD_op_trace(graph, parameter, gradient)
                  ELSE Adam_op_trace(graph, parameter, gradient)
  BY DEF create_optimizer_graph
<1>2. /\ Good(graph) /\ NoClones(graph) /\ fwd_to_recompute = <<>>
      /\ GradsGood(graph, fwd_to_out_gradient_map) /\ todo \in Seq(N)
  BY <1>1 DEF GraphInv, AddingInv, Adding
<1>3. parameter \in N /\ Tail(todo) \in Seq(N)
  <2> HIDE DEF N
  <2> QED BY <1>1, <1>2, SeqHeadTail
<1>4. gradient \in N
  <2>1. PICK D \in SUBSET Names : fwd_to_out_gradient_map \in [D -> Seq(Names)]
    BY <1>2 DEF GradsGood, PartialMaps
  <2> DEFINE s == fwd_to_out_gradient_map[parameter]
  <2>2. s \in Seq(Names) /\ s # <<>> /\ \A m \in ToSet(s) : m \in N
    BY <1>1, <1>2, <2>1 DEF GradsGood
  <2> HIDE DEF s
  <2>3. s[1] \in ToSet(s)
    BY <2>2, SeqHeadTail
  <2> QED BY <2>2, <2>3 DEF s
<1> HIDE DEF gradient, parameter
<1>5. Good(graph') /\ NoClones(graph') /\ Grows(graph, graph')
  BY <1>1, <1>2, <1>3, <1>4, SGDIs, AdamIs
<1>6. GradsGood(graph', fwd_to_out_gradient_map')
  BY <1>1, <1>2, <1>5, GradsGrow
<1>7. todo' \in Seq(ToSet(graph'.nodes))
  BY <1>1, <1>3, <1>5 DEF Grows, Keeps
<1>8. AddingInv'
  BY <1>1, <1>2, <1>5, <1>6, <1>7 DEF AddingInv
<1> QED BY <1>1, <1>5, <1>8, AddingStep DEF GraphInv, Adding

-----------------------------------------------------------------------------
(* Recomputation.                                                          *)

(* Nodes of a set in topological order: each once, after the operands that *)
(* are in the set too.                                                     *)
LEMMA SortedOnly ==
  ASSUME NEW g, Sound(g), NEW S, NEW t, t = Only(topological_sort(g), S)
  PROVE  /\ t \in Seq(ToSet(g.nodes)) /\ ToSet(t) = ToSet(g.nodes) \cap S
         /\ \A i, j \in 1..Len(t) : t[i] = t[j] => i = j
         /\ \A i \in 1..Len(t) : \A m \in ToSet(g.operands[t[i]]) :
               m \in S => \E j \in 1..Len(t) : j < i /\ t[j] = m
<1> DEFINE r == topological_sort(g)
           N == ToSet(g.nodes)
<1>1. r \in Seq(N) /\ Sorted(g, r)
  BY TopologicalSortIs DEF Sound
<1>2. t \in Seq(N) /\ ToSet(t) = N \cap S
  BY SortedNodes
<1> HIDE DEF r, N
<1>3. PICK p : Places(p, r, S, t, Len(r))
  <2>1. t = Only(r, S)
    BY DEF r
  <2> QED BY <1>1, <2>1, OnlyIs
<1>4. Len(t) \in Nat /\ Len(r) \in Nat
  BY <1>1, <1>2
<1>5. \A i \in 1..Len(t) : p[i] \in 1..Len(r) /\ t[i] = r[p[i]]
  BY <1>3 DEF Places
<1>6. \A i, j \in 1..Len(t) : i < j => p[i] < p[j]
  BY <1>3 DEF Places
<1>7. \A a \in 1..Len(r) : r[a] \in S => \E i \in 1..Len(t) : p[i] = a
  BY <1>3 DEF Places
<1>8. ASSUME NEW i \in 1..Len(t), NEW j \in 1..Len(t), t[i] = t[j] PROVE i = j
  <2>1. p[i] = p[j]
    <3>1. \A a, b \in 1..Len(r) : r[a] = r[b] => a = b
      BY <1>1 DEF Sorted
    <3>2. p[i] \in 1..Len(r) /\ p[j] \in 1..Len(r) /\ r[p[i]] = r[p[j]]
      BY <1>5, <1>8
    <3> QED BY <3>1, <3>2
  <2>2. p[i] \in 1..Len(r) /\ ~(p[i] < p[i])
    BY <1>4, <1>5
  <2>3. ~(i < j) /\ ~(j < i)
    BY <1>6, <2>1, <2>2
  <2> QED BY <1>4, <2>3
<1>9. ASSUME NEW i \in 1..Len(t), NEW m \in ToSet(g.operands[t[i]]), m \in S
      PROVE  \E j \in 1..Len(t) : j < i /\ t[j] = m
  <2>1. PICK l \in 1..Len(r) : l < p[i] /\ r[l] = m
    BY <1>1, <1>5 DEF Sorted
  <2>2. PICK j \in 1..Len(t) : p[j] = l
    BY <1>7, <1>9, <2>1
  <2>3. t[j] = m
    BY <1>5, <2>1, <2>2
  <2>4. j < i
    <3>1. p[j] < p[i] /\ p[i] \in 1..Len(r) /\ p[j] \in 1..Len(r)
      BY <1>5, <2>1, <2>2
    <3>2. ~(i < j) /\ i # j
      BY <1>4, <1>6, <3>1
    <3> QED BY <1>4, <3>2
  <2> QED BY <2>3, <2>4
<1> QED BY <1>2, <1>8, <1>9 DEF N

(* The invariant when the loop that clones the forward ops starts.         *)
LEMMA StartCloning ==
  ASSUME GraphInv, Good(graph), NoClones(graph), fwd_to_recompute = <<>>,
         stage' = "create_recompute_ops", config' = config, config.recompute,
         graph' = graph, fwd_to_recompute' = fwd_to_recompute, todo' = RecomputeOrder(graph)
  PROVE  GraphInv'
<1> DEFINE S == {n \in DOMAIN graph.node : is_forward(graph, n) /\ graph.node[n].type = "PyOp"}
           N == ToSet(graph.nodes)
<1>1. DOMAIN graph.node = N /\ Sound(graph)
  BY SoundIs DEF Good
<1>2. /\ todo' \in Seq(N) /\ ToSet(todo') = N \cap S
      /\ \A i \in 1..Len(todo') : \A m \in ToSet(graph.operands[todo'[i]]) :
            m \in S => \E j \in 1..Len(todo') : j < i /\ todo'[j] = m
  <2>1. todo' = Only(topological_sort(graph), S)
    BY DEF RecomputeOrder
  <2> HIDE DEF S, N
  <2>2. PICK t : t = todo'
    OBVIOUS
  <2>3. /\ t \in Seq(ToSet(graph.nodes)) /\ ToSet(t) = ToSet(graph.nodes) \cap S
        /\ \A i \in 1..Len(t) : \A m \in ToSet(graph.operands[t[i]]) :
              m \in S => \E j \in 1..Len(t) : j < i /\ t[j] = m
    BY <1>1, <2>1, <2>2, SortedOnly
  <2> QED BY <2>2, <2>3 DEF N
<1>3. \A n : n \in S <=> n \in N /\ is_forward(graph, n) /\ graph.node[n].type = "PyOp"
  BY <1>1
<1> HIDE DEF S
<1>4. \A i \in 1..Len(todo') : /\ todo'[i] \in ToSet(todo') /\ todo'[i] \in N
                              /\ is_forward(graph, todo'[i])
  <2>1. \A i \in 1..Len(todo') : todo'[i] \in ToSet(todo')
    BY <1>2, SeqElements
  <2> QED BY <1>2, <1>3, <2>1
<1>5. ASSUME NEW i \in 1..Len(todo'), NEW m \in ToSet(graph.operands[todo'[i]]), graph.node[m].type = "PyOp"
      PROVE  \E j \in 1..Len(todo') : j < i /\ todo'[j] = m
  <2>1. ForwardGood(graph, todo'[i])
    BY <1>4 DEF Good, NodeGood
  <2>2. m \in N
    BY <1>1, <1>4, SoundOperands
  <2>3. m \in S
    BY <1>3, <1>4, <1>5, <2>1, <2>2 DEF ForwardGood
  <2> QED BY <1>2, <2>3
<1>6. DOMAIN fwd_to_recompute = {} /\ fwd_to_recompute \in PartialMaps(Names, Names)
  BY EmptyMap
<1>7. CloningInv'
  BY <1>2, <1>3, <1>5, <1>6 DEF CloningInv, NoClones, N
<1> QED BY <1>7 DEF GraphInv, AddingInv, RemovingInv, RecomputedInv, Adding, Recomputing, Finishing

(* The invariant when nothing is recomputed.                               *)
LEMMA FinishWithoutRecompute ==
  ASSUME GraphInv, stage' = "remove_nops", config' = config, ~config.recompute, graph' = graph
  PROVE  GraphInv'
BY DEF GraphInv, AddingInv, CloningInv, RemovingInv, RecomputedInv, Adding, Recomputing, Finishing, Plain

(* backward_graph_created keeps the invariant.                             *)
LEMMA BackwardGraphCreatedInv ==
  ASSUME GraphInv, backward_graph_created
  PROVE  GraphInv'
<1>1. /\ stage = "create_backward_graph" /\ stage' = AfterBackward /\ config' = config
      /\ graph' = graph /\ fwd_to_recompute' = fwd_to_recompute
      /\ fwd_to_out_gradient_map' = fwd_to_out_gradient_map
      /\ config \in [optimizer : Optimizers, recompute : BOOLEAN]
  BY DEF backward_graph_created, GraphInv
<1>2. /\ Good(graph) /\ NoClones(graph) /\ fwd_to_recompute = <<>>
      /\ GradsGood(graph, fwd_to_out_gradient_map)
  BY <1>1 DEF GraphInv, AddingInv, Adding
<1>3. CASE config.optimizer # "none"
  <2> DEFINE S == {n \in DOMAIN graph.node : graph.node[n].kind = "Parameter" /\ graph.node[n].grad}
  <2>1. todo' = Only(graph.nodes, S)
    BY <1>3 DEF backward_graph_created
  <2> HIDE DEF S
  <2>2. todo' \in Seq(ToSet(graph.nodes))
    BY <1>2, <2>1, NodesByType DEF Good
  <2>3. stage' = "create_optimizer_graph"
    BY <1>1, <1>3 DEF AfterBackward
  <2>4. AddingInv'
    BY <1>1, <1>2, <2>2, <2>3 DEF AddingInv
  <2> QED BY <1>1, <2>3, <2>4, AddingStep DEF Adding
<1>4. CASE config.optimizer = "none" /\ config.recompute
  <2>1. todo' = RecomputeOrder(graph) /\ stage' = "create_recompute_ops"
    BY <1>1, <1>4 DEF backward_graph_created, AfterBackward
  <2> QED BY <1>1, <1>2, <1>4, <2>1, StartCloning
<1>5. CASE config.optimizer = "none" /\ ~config.recompute
  <2>1. stage' = "remove_nops"
    BY <1>1, <1>5 DEF AfterBackward
  <2> QED BY <1>1, <1>5, <2>1, FinishWithoutRecompute
<1> QED BY <1>3, <1>4, <1>5

(* optimizer_graph_created keeps the invariant.                            *)
LEMMA OptimizerGraphCreatedInv ==
  ASSUME GraphInv, optimizer_graph_created
  PROVE  GraphInv'
<1>1. /\ stage = "create_optimizer_graph" /\ config' = config
      /\ stage' = IF config.recompute THEN "create_recompute_ops" ELSE "remove_nops"
      /\ graph' = graph /\ fwd_to_recompute' = fwd_to_recompute /\ todo' = RecomputeOrder(graph)
  BY DEF optimizer_graph_created
<1>2. Good(graph) /\ NoClones(graph) /\ fwd_to_recompute = <<>>
  BY <1>1 DEF GraphInv, AddingInv, Adding
<1>3. CASE config.recompute
  BY <1>1, <1>2, <1>3, StartCloning
<1>4. CASE ~config.recompute
  BY <1>1, <1>4, FinishWithoutRecompute
<1> QED BY <1>3, <1>4

(* The name of a clone.                                                    *)
LEMMA RecomputeIs ==
  ASSUME NEW n \in Names, n = In(n[1])
  PROVE  /\ Recompute(n) \in Names /\ Recompute(n)[1] = n[1] /\ IsClone(Recompute(n))
         /\ NameGood(Recompute(n))
<1>1. "recompute" \in Tags
  BY DEF Tags
<1>2. Recompute(n) \in Names /\ Recompute(n)[1] = n[1] /\ Last(Recompute(n)[2]) = "recompute"
  BY <1>1, SuffixedIs DEF Recompute
<1>3. n[2] = <<>>
  BY DEF In
<1>4. Recompute(n)[2] = Append(<<>>, "recompute")
  BY <1>3 DEF Recompute, Suffixed
<1>5. Append(<<>>, "recompute") = <<"recompute">>
  OBVIOUS
<1> QED BY <1>2, <1>4, <1>5 DEF IsClone, NameGood

(* The next op to be cloned: its operands that are ops have their clones   *)
(* (the assertion of insert_recompute_ops).                                *)
LEMMA CloningStage ==
  ASSUME CloningInv, stage = "create_recompute_ops", todo # <<>>,
         NEW n, n = Head(todo)
  PROVE  /\ Good(graph) /\ n \in ToSet(graph.nodes) /\ n \in ToSet(todo)
         /\ is_forward(graph, n) /\ graph.node[n].type = "PyOp"
         /\ n \in Names /\ n = In(n[1])
         /\ \A m \in ToSet(graph.operands[n]) :
               /\ m \in ToSet(graph.nodes) /\ is_forward(graph, m)
               /\ graph.node[m].type = "Input" \/ m \in DOMAIN fwd_to_recompute
<1>1. /\ Good(graph) /\ todo \in Seq(ToSet(graph.nodes))
      /\ \A x \in ToSet(todo) : is_forward(graph, x) /\ graph.node[x].type = "PyOp"
      /\ \A i \in 1..Len(todo) : \A m \in ToSet(graph.operands[todo[i]]) :
            graph.node[m].type = "PyOp" =>
               m \in DOMAIN fwd_to_recompute \/ \E j \in 1..Len(todo) : j < i /\ todo[j] = m
  BY DEF CloningInv
<1>2. n \in ToSet(graph.nodes) /\ n \in ToSet(todo) /\ n = todo[1] /\ 1 \in 1..Len(todo)
  BY <1>1, SeqHeadTail
<1>3. n \in Names
  BY <1>1, <1>2, SoundIs DEF Good
<1>4. ForwardGood(graph, n) /\ is_forward(graph, n)
  BY <1>1, <1>2 DEF Good, NodeGood
<1>5. ASSUME NEW m \in ToSet(graph.operands[n])
      PROVE  /\ m \in ToSet(graph.nodes) /\ is_forward(graph, m)
             /\ graph.node[m].type = "Input" \/ m \in DOMAIN fwd_to_recompute
  <2>1. m \in ToSet(graph.nodes)
    BY <1>1, <1>2, SoundOperands DEF Good
  <2>2. is_forward(graph, m) /\ graph.node[m].type \in {"Input", "PyOp"}
    BY <1>4 DEF ForwardGood
  <2>3. \A j \in 1..Len(todo) : ~(j < 1)
    OBVIOUS
  <2>4. graph.node[m].type = "PyOp" => m \in DOMAIN fwd_to_recompute
    BY <1>1, <1>2, <2>3
  <2> QED BY <2>1, <2>2, <2>4
<1> QED BY <1>1, <1>2, <1>3, <1>4, <1>5 DEF ForwardGood

(* The clone of an op: what it reads was there.                            *)
CloneOperand(m) == IF graph.node[m].type = "Input" THEN m ELSE fwd_to_recompute[m]
CloneOperands(n) == [i \in DOMAIN graph.operands[n] |-> CloneOperand(graph.operands[n][i])]
CloneRecord(n) == [graph.node[n] EXCEPT !.epoch = "Backward"]

(* The clone is added to a good graph.                                     *)
LEMMA CloneAdded ==
  ASSUME CloningInv, stage = "create_recompute_ops", todo # <<>>,
         NEW n, n = Head(todo),
         NEW h, h = add_node(graph, Recompute(n), CloneRecord(n), CloneOperands(n))
  PROVE  /\ Good(h) /\ Grows(graph, h) /\ ToSet(h.nodes) = ToSet(graph.nodes) \cup {Recompute(n)}
<1> DEFINE N == ToSet(graph.nodes)
           name == Recompute(n)
           rec == CloneRecord(n)
           ops == CloneOperands(n)
           s == graph.operands[n]
<1>1. /\ Good(graph) /\ Sound(graph) /\ n \in N /\ is_forward(graph, n) /\ n \in Names /\ n = In(n[1])
      /\ \A m \in ToSet(s) : /\ m \in N /\ is_forward(graph, m)
                             /\ graph.node[m].type = "Input" \/ m \in DOMAIN fwd_to_recompute
  BY CloningStage DEF Good
<1>2. name \in Names /\ name[1] = n[1] /\ IsClone(name) /\ NameGood(name)
  BY <1>1, RecomputeIs
<1>3. /\ \A m \in ToSet(s) : m[1] < n[1]
      /\ DOMAIN s = 1..Len(s) /\ Len(s) \in Nat /\ \A i \in 1..Len(s) : s[i] \in ToSet(s)
  BY <1>1, SoundOperands
<1>4. \A m \in DOMAIN fwd_to_recompute :
         m \in N /\ fwd_to_recompute[m] = Recompute(m) /\ Recompute(m) \in N /\ is_forward(graph, m)
  BY DEF CloningInv
<1>5. ASSUME NEW m \in ToSet(s)
      PROVE  /\ CloneOperand(m) \in N /\ CloneOperand(m)[1] < n[1]
             /\ IsClone(CloneOperand(m)) \/ (CloneOperand(m) = m /\ graph.node[m].type = "Input")
  <2>1. CASE graph.node[m].type = "Input"
    BY <1>1, <1>3, <2>1 DEF CloneOperand
  <2>2. CASE graph.node[m].type # "Input"
    <3>1. CloneOperand(m) = Recompute(m) /\ Recompute(m) \in N
      BY <1>1, <1>4, <2>2 DEF CloneOperand
    <3>2. m \in Names /\ m = In(m[1])
      <4>1. NodeGood(graph, m)
        BY <1>1 DEF Good
      <4>2. m \in Names
        BY <1>1, SoundIs
      <4> QED BY <1>1, <4>1, <4>2 DEF NodeGood, ForwardGood
    <3>3. Recompute(m)[1] = m[1] /\ IsClone(Recompute(m))
      BY <3>2, RecomputeIs
    <3> QED BY <1>3, <3>1, <3>3
  <2> QED BY <2>1, <2>2
<1>6. /\ ops = [i \in 1..Len(s) |-> CloneOperand(s[i])]
      /\ \A i \in 1..Len(s) : ops[i] = CloneOperand(s[i]) /\ ops[i] \in N
  <2>1. ops = [i \in 1..Len(s) |-> CloneOperand(s[i])]
    BY <1>3 DEF CloneOperands
  <2> HIDE DEF ops
  <2> QED BY <1>3, <1>5, <2>1
<1> HIDE DEF ops, s, N, name
<1>7. ops \in Seq(N) /\ Len(ops) = Len(s)
  BY <1>3, <1>6
<1>8. \A x \in ToSet(ops) : \E m \in ToSet(s) : x = CloneOperand(m)
  <2>1. ToSet(ops) = {ops[i] : i \in 1..Len(s)}
    BY <1>7, SeqElements
  <2> QED BY <1>3, <1>6, <2>1
<1>9. \A x \in ToSet(ops) : x[1] < name[1]
  BY <1>2, <1>5, <1>8
<1>10. rec \in NodeRecords /\ rec.epoch = "Backward"
       /\ rec.kind = graph.node[n].kind /\ rec.type = graph.node[n].type
  <2>1. graph.node[n] \in NodeRecords
    BY <1>1, SoundIs DEF N
  <2>2. "Backward" \in Epochs
    BY DEF Epochs
  <2> QED BY <2>1, <2>2 DEF NodeRecords, CloneRecord
<1> HIDE DEF rec
<1>11. Added(graph, h, name, rec, ops)
  BY <1>1, <1>2, <1>7, <1>9, <1>10, AddNode DEF N, name, rec, ops
<1>12. ASSUME name \notin N PROVE NodeGood(h, name)
  <2>1. h.node[name] = rec /\ h.operands[name] = ops /\ Grows(graph, h)
    BY <1>10, <1>11, <1>12 DEF Added, N
  <2>2. NopGood(h, name)
    <3>1. NopGood(graph, n)
      BY <1>1 DEF Good, NodeGood, N
    <3> QED BY <1>7, <1>10, <2>1, <3>1 DEF NopGood, is_optimizer, s
  <2>3. ForwardGood(h, name)
    BY <1>10, <2>1 DEF ForwardGood, is_forward
  <2>4. CloneGood(h, name)
    <3> SUFFICES ASSUME NEW x \in ToSet(ops)
                 PROVE  IsClone(x) \/ (is_forward(h, x) /\ h.node[x].type = "Input" /\ UsedInForward(h, x))
      BY <1>10, <2>1 DEF CloneGood, is_backward
    <3>1. PICK m \in ToSet(s) : x = CloneOperand(m)
      BY <1>8
    <3>2. CASE IsClone(x)
      BY <3>2
    <3>3. CASE x = m /\ graph.node[m].type = "Input"
      <4>1. m \in N /\ h.node[m] = graph.node[m]
        BY <1>1, <2>1 DEF Grows, Keeps, N
      <4>2. is_forward(h, m)
        BY <1>1, <4>1 DEF is_forward
      <4>3. UsedInForward(h, m)
        <5>1. n \in ToSet(h.nodes) /\ h.node[n] = graph.node[n] /\ h.operands[n] = s
          BY <1>1, <2>1 DEF Grows, Keeps, N, s
        <5> QED BY <1>1, <5>1 DEF UsedInForward, is_forward
      <4> QED BY <3>3, <4>1, <4>2, <4>3
    <3> QED BY <1>5, <3>1, <3>2, <3>3
  <2>5. OtherGood(h, name)
    BY <1>2 DEF OtherGood
  <2> QED BY <1>2, <2>2, <2>3, <2>4, <2>5 DEF NodeGood
<1>13. Good(h) /\ Grows(graph, h)
  <2>1. rec.epoch # "Forward"
    BY <1>10
  <2> QED BY <1>1, <1>2, <1>7, <1>9, <1>10, <1>12, <2>1, AddGood DEF N, name, rec, ops
<1> QED BY <1>11, <1>13 DEF Added, name

(* create_recompute_op keeps the invariant.                                *)
LEMMA RecomputeOpInv ==
  ASSUME GraphInv, create_recompute_op
  PROVE  GraphInv' /\ Grows(graph, graph')
<1>1. /\ stage = "create_recompute_ops" /\ todo # <<>> /\ todo' = Tail(todo) /\ stage' = stage
      /\ config' = config
      /\ fwd_to_recompute' = Extend(fwd_to_recompute, Head(todo), Recompute(Head(todo)))
      /\ graph' = add_node(graph, Recompute(Head(todo)), CloneRecord(Head(todo)), CloneOperands(Head(todo)))
  BY DEF create_recompute_op, CloneRecord, CloneOperands, CloneOperand
<1>2. CloningInv /\ config \in [optimizer : Optimizers, recompute : BOOLEAN] /\ config.recompute
  BY <1>1 DEF GraphInv, Recomputing
<1>3. PICK n : n = Head(todo)
  OBVIOUS
<1> DEFINE N == ToSet(graph.nodes)
           f == fwd_to_recompute
<1>4. Good(graph') /\ Grows(graph, graph') /\ ToSet(graph'.nodes) = N \cup {Recompute(n)}
  BY <1>1, <1>2, <1>3, CloneAdded
<1>5. /\ n \in N /\ n \in ToSet(todo) /\ is_forward(graph, n) /\ graph.node[n].type = "PyOp" /\ n \in Names
      /\ Recompute(n) \in Names
  <2>1. /\ n \in N /\ n \in ToSet(todo) /\ is_forward(graph, n) /\ graph.node[n].type = "PyOp" /\ n \in Names
        /\ n = In(n[1])
    BY <1>1, <1>2, <1>3, CloningStage
  <2> QED BY <2>1, RecomputeIs
<1>6. /\ f \in PartialMaps(Names, Names) /\ todo \in Seq(N)
      /\ \A x \in DOMAIN f : /\ x \in N /\ is_forward(graph, x) /\ graph.node[x].type = "PyOp"
                             /\ f[x] = Recompute(x) /\ Recompute(x) \in N
      /\ \A c \in N : IsClone(c) => \E x \in DOMAIN f : c = Recompute(x)
      /\ \A x \in ToSet(todo) : is_forward(graph, x) /\ graph.node[x].type = "PyOp"
      /\ \A x \in N : (is_forward(graph, x) /\ graph.node[x].type = "PyOp") => x \in DOMAIN f \cup ToSet(todo)
      /\ \A i \in 1..Len(todo) : \A m \in ToSet(graph.operands[todo[i]]) :
            graph.node[m].type = "PyOp" => m \in DOMAIN f \/ \E j \in 1..Len(todo) : j < i /\ todo[j] = m
  BY <1>1, <1>2 DEF CloningInv
<1>7. /\ todo' \in Seq(N) /\ ToSet(todo) = {n} \cup ToSet(todo') /\ n = todo[1]
      /\ Len(todo') = Len(todo) - 1 /\ Len(todo) \in Nat
      /\ \A i \in 1..Len(todo') : todo'[i] = todo[i + 1] /\ i + 1 \in 1..Len(todo)
  <2> HIDE DEF N
  <2>1. PICK t : t = todo
    OBVIOUS
  <2>2. t \in Seq(N) /\ t # <<>> /\ n = Head(t) /\ todo' = Tail(t) /\ Len(t) \in Nat
    BY <1>1, <1>3, <1>6, <2>1
  <2> QED BY <2>1, <2>2, SeqHeadTail
<1>8. /\ DOMAIN f' = DOMAIN f \cup {n} /\ \A x \in DOMAIN f : f'[x] = f[x]
      /\ f'[n] = Recompute(n) /\ f' \in PartialMaps(Names, Names)
  <2>1. PICK D \in SUBSET Names : f \in [D -> Names]
    BY <1>6 DEF PartialMaps
  <2>2. f' = [x \in DOMAIN f \cup {n} |-> IF x \in DOMAIN f THEN f[x] ELSE Recompute(n)]
    BY <1>1, <1>3 DEF Extend
  <2>3. DOMAIN f' = DOMAIN f \cup {n} /\ \A x \in DOMAIN f : f'[x] = f[x]
    BY <2>2
  <2>4. f'[n] = Recompute(n)
    <3>1. n \in DOMAIN f => f[n] = Recompute(n)
      BY <1>6
    <3> HIDE DEF f
    <3> QED BY <2>2, <3>1
  <2>5. f' \in [D \cup {n} -> Names]
    <3> HIDE DEF f
    <3> QED BY <1>5, <2>1, <2>2
  <2>6. f' \in PartialMaps(Names, Names)
    BY <1>5, <2>5 DEF PartialMaps
  <2> QED BY <2>3, <2>4, <2>6
<1> HIDE DEF f
<1>9. \A x \in N : /\ x \in ToSet(graph'.nodes) /\ is_forward(graph', x) = is_forward(graph, x)
                   /\ graph'.node[x] = graph.node[x] /\ graph'.operands[x] = graph.operands[x]
  BY <1>4 DEF Grows, Keeps, is_forward
<1>10. \A x \in DOMAIN f' : /\ x \in ToSet(graph'.nodes) /\ is_forward(graph', x) /\ graph'.node[x].type = "PyOp"
                            /\ f'[x] = Recompute(x) /\ Recompute(x) \in ToSet(graph'.nodes)
  BY <1>4, <1>5, <1>6, <1>8, <1>9
<1>11. \A c \in ToSet(graph'.nodes) : IsClone(c) => \E x \in DOMAIN f' : c = Recompute(x)
  BY <1>4, <1>6, <1>8
<1>12. ToSet(todo') \subseteq N
  BY <1>7, SeqElements
<1>13. /\ todo' \in Seq(ToSet(graph'.nodes))
       /\ \A x \in ToSet(todo') : is_forward(graph', x) /\ graph'.node[x].type = "PyOp"
  <2>1. N \subseteq ToSet(graph'.nodes)
    BY <1>9
  <2> HIDE DEF N
  <2> QED BY <1>6, <1>7, <1>9, <1>12, <2>1
<1>14. ASSUME NEW x \in ToSet(graph'.nodes), is_forward(graph', x), graph'.node[x].type = "PyOp"
       PROVE  x \in DOMAIN f' \cup ToSet(todo')
  <2>1. CASE x \in N
    BY <1>6, <1>7, <1>8, <1>9, <1>14, <2>1
  <2>2. CASE x = Recompute(n) /\ x \notin N
    <3>1. IsClone(x) /\ CloneGood(graph', x)
      <4>1. n = In(n[1])
        BY <1>1, <1>2, <1>3, CloningStage
      <4>2. IsClone(x)
        BY <1>5, <2>2, <4>1, RecomputeIs
      <4> QED BY <1>4, <4>2 DEF Good, NodeGood
    <3>2. is_backward(graph', x)
      BY <3>1 DEF CloneGood
    <3> QED BY <1>14, <3>2 DEF is_forward, is_backward
  <2> QED BY <1>4, <2>1, <2>2
<1>15. ASSUME NEW i \in 1..Len(todo'), NEW m \in ToSet(graph'.operands[todo'[i]]), graph'.node[m].type = "PyOp"
       PROVE  m \in DOMAIN f' \/ \E j \in 1..Len(todo') : j < i /\ todo'[j] = m
  <2>1. todo'[i] = todo[i + 1] /\ i + 1 \in 1..Len(todo) /\ todo'[i] \in N
    BY <1>7
  <2>2. m \in ToSet(graph.operands[todo[i + 1]])
    BY <1>9, <1>15, <2>1
  <2>3. m \in N
    BY <1>6, <2>1, <2>2, SoundOperands, <1>2, <1>1 DEF CloningInv, Good
  <2>4. graph.node[m].type = "PyOp"
    BY <1>9, <1>15, <2>3
  <2>5. m \in DOMAIN f \/ \E j \in 1..Len(todo) : j < i + 1 /\ todo[j] = m
    BY <1>6, <2>1, <2>2, <2>4
  <2>6. ASSUME NEW j \in 1..Len(todo), j < i + 1, todo[j] = m
        PROVE  m \in DOMAIN f' \/ \E l \in 1..Len(todo') : l < i /\ todo'[l] = m
    <3>1. CASE j = 1
      BY <1>7, <1>8, <2>6, <3>1
    <3>2. CASE j # 1
      <4>1. j - 1 \in 1..Len(todo') /\ (j - 1) + 1 = j /\ j - 1 < i
        BY <1>7, <2>6, <3>2
      <4>2. todo'[j - 1] = m
        BY <1>7, <2>6, <4>1
      <4> QED BY <4>1, <4>2
    <3> QED BY <3>1, <3>2
  <2> QED BY <1>8, <2>5, <2>6
<1>16. CloningInv'
  BY <1>4, <1>8, <1>10, <1>11, <1>13, <1>14, <1>15 DEF CloningInv, f
<1> QED BY <1>1, <1>2, <1>4, <1>16, GoodIsPlain
        DEF GraphInv, AddingInv, RemovingInv, RecomputedInv, Adding, Recomputing, Finishing

(* A graph is sound when its parts are.                                    *)
Parts(h, nodes, node, operands, loopback, inputs, outputs) ==
  /\ h = [nodes |-> nodes, node |-> node, operands |-> operands, loopback |-> loopback,
          inputs |-> inputs, outputs |-> outputs]
  /\ nodes \in Seq(Names) /\ node \in [ToSet(nodes) -> NodeRecords]
  /\ operands \in [ToSet(nodes) -> Seq(ToSet(nodes))]
  /\ \A n \in ToSet(nodes) : \A m \in ToSet(operands[n]) : m[1] < n[1]
  /\ loopback \in SUBSET (Names \X Names) /\ inputs \in Seq(Names) /\ outputs \in Seq(Names)

(* Such a graph is sound, and its parts are these.                         *)
LEMMA PartsSound ==
  ASSUME NEW h, NEW nodes, NEW node, NEW operands, NEW loopback, NEW inputs, NEW outputs,
         Parts(h, nodes, node, operands, loopback, inputs, outputs)
  PROVE  /\ Sound(h)
         /\ h.nodes = nodes /\ h.node = node /\ h.operands = operands /\ h.loopback = loopback
         /\ h.inputs = inputs /\ h.outputs = outputs
<1> DEFINE N == ToSet(nodes)
<1>1. /\ h = [nodes |-> nodes, node |-> node, operands |-> operands, loopback |-> loopback,
             inputs |-> inputs, outputs |-> outputs]
      /\ nodes \in Seq(Names) /\ node \in [N -> NodeRecords] /\ operands \in [N -> Seq(N)]
      /\ \A n \in N : \A m \in ToSet(operands[n]) : m[1] < n[1]
      /\ loopback \in SUBSET (Names \X Names) /\ inputs \in Seq(Names) /\ outputs \in Seq(Names)
  BY DEF Parts
<1>2. /\ h.nodes = nodes /\ h.node = node /\ h.operands = operands /\ h.loopback = loopback
      /\ h.inputs = inputs /\ h.outputs = outputs
  <2> HIDE DEF N
  <2> QED BY <1>1
<1>3. N \subseteq Names
  BY <1>1, SeqElements
<1>4. \A n \in N : DOMAIN operands[n] = 1..Len(operands[n])
                   /\ \A i \in 1..Len(operands[n]) : operands[n][i] \in ToSet(operands[n])
  <2> HIDE DEF N
  <2> QED BY <1>1, SeqElements
<1>5. Numbered(h)
  <2> HIDE DEF N
  <2> QED BY <1>1, <1>2, <1>4 DEF Numbered
<1> HIDE DEF N
<1>6. node \in PartialMaps(Names, NodeRecords)
  BY <1>1, <1>3 DEF PartialMaps
<1>7. operands \in PartialMaps(Names, Seq(Names))
  <2>1. \A s \in Seq(N) : s \in Seq(Names)
    BY <1>3
  <2>2. operands \in [N -> Seq(Names)]
    BY <1>1, <2>1
  <2> QED BY <1>3, <2>2 DEF PartialMaps
<1>8. h \in AllGraphs
  BY <1>1, <1>6, <1>7 DEF AllGraphs
<1>9. Dag(h)
  BY <1>1, <1>2, <1>5 DEF Dag, N
<1> QED BY <1>1, <1>2, <1>8, <1>9 DEF Sound, N

(* What backward reads once the edges are moved.                           *)
Recomputation(m) == IF m \in DOMAIN fwd_to_recompute THEN fwd_to_recompute[m] ELSE m

(* What is known when every op is cloned.                                  *)
AllCloned ==
  /\ Good(graph)
  /\ \A n \in DOMAIN fwd_to_recompute :
        /\ n \in ToSet(graph.nodes) /\ is_forward(graph, n) /\ n[1] \in Nat
        /\ fwd_to_recompute[n] \in ToSet(graph.nodes) /\ fwd_to_recompute[n][1] = n[1]
        /\ IsClone(fwd_to_recompute[n])
  /\ \A c \in ToSet(graph.nodes) : IsClone(c) <=> c \in Range(fwd_to_recompute)
  /\ \A n \in ToSet(graph.nodes) :
        (is_forward(graph, n) /\ graph.node[n].type = "PyOp") => n \in DOMAIN fwd_to_recompute

(* At the end of the loop every forward op has its clone.                  *)
LEMMA AllAreCloned ==
  ASSUME CloningInv, stage = "create_recompute_ops", todo = <<>>
  PROVE  AllCloned
<1> DEFINE f == fwd_to_recompute
           N == ToSet(graph.nodes)
<1>1. /\ Good(graph)
      /\ \A n \in DOMAIN f : /\ n \in N /\ is_forward(graph, n)
                             /\ f[n] = Recompute(n) /\ Recompute(n) \in N
      /\ \A c \in N : IsClone(c) => \E n \in DOMAIN f : c = Recompute(n)
      /\ \A n \in N : (is_forward(graph, n) /\ graph.node[n].type = "PyOp") => n \in DOMAIN f \cup ToSet(todo)
  BY DEF CloningInv
<1>2. ToSet(todo) = {}
  BY DEF ToSet
<1>3. ASSUME NEW n \in DOMAIN f
      PROVE  n[1] \in Nat /\ f[n][1] = n[1] /\ IsClone(f[n])
  <2>1. n \in Names /\ n = In(n[1])
    <3>1. NodeGood(graph, n) /\ n \in N
      BY <1>1 DEF Good
    <3> QED BY <1>1, <3>1, SoundIs DEF Good, NodeGood, ForwardGood
  <2>2. n[1] \in Nat
    BY <2>1 DEF Names
  <2> QED BY <1>1, <2>1, <2>2, RecomputeIs
<1>4. \A c : c \in Range(f) <=> \E n \in DOMAIN f : c = f[n]
  BY DEF Range
<1>5. ASSUME NEW c \in N PROVE IsClone(c) <=> c \in Range(f)
  BY <1>1, <1>3, <1>4
<1> QED BY <1>1, <1>2, <1>3, <1>5 DEF AllCloned

(* What a backward node reads when its edges are moved: clones instead of  *)
(* forward ops.                                                            *)
LEMMA ReadsRecomputedIs ==
  ASSUME AllCloned, NEW n \in ToSet(graph.nodes), NEW s, s = ReadsRecomputed(graph, n)
  PROVE  /\ s \in Seq(ToSet(graph.nodes)) /\ Len(s) = Len(graph.operands[n])
         /\ \A x \in ToSet(s) : x[1] < n[1] /\ \E m \in ToSet(graph.operands[n]) : x = Recomputation(m)
<1> DEFINE N == ToSet(graph.nodes)
           t == graph.operands[n]
<1>1. /\ \A m \in ToSet(t) : m \in N /\ m[1] < n[1]
      /\ DOMAIN t = 1..Len(t) /\ Len(t) \in Nat /\ \A i \in 1..Len(t) : t[i] \in ToSet(t)
  BY SoundOperands DEF AllCloned, Good
<1>2. \A m \in ToSet(t) : Recomputation(m) \in N /\ Recomputation(m)[1] < n[1]
  BY <1>1 DEF AllCloned, Recomputation
<1>3. s = [i \in 1..Len(t) |-> Recomputation(t[i])]
  BY <1>1 DEF ReadsRecomputed, Recomputation
<1> HIDE DEF t, N
<1>4. s \in Seq(N) /\ Len(s) = Len(t) /\ \A i \in 1..Len(t) : s[i] = Recomputation(t[i])
  BY <1>1, <1>2, <1>3
<1>5. ToSet(s) = {s[i] : i \in 1..Len(t)}
  BY <1>4, SeqElements
<1>6. \A x \in ToSet(s) : \E m \in ToSet(t) : x = Recomputation(m)
  BY <1>1, <1>4, <1>5
<1> QED BY <1>2, <1>4, <1>6 DEF t, N

(* The graph with the edges moved.                                         *)
Moved(h) ==
  /\ Sound(h)
  /\ h.nodes = graph.nodes /\ h.node = graph.node /\ h.loopback = graph.loopback
  /\ h.inputs = graph.inputs /\ h.outputs = graph.outputs
  /\ \A n \in ToSet(graph.nodes) :
        IF is_backward(graph, n) /\ ~IsClone(n) THEN h.operands[n] = ReadsRecomputed(graph, n)
        ELSE h.operands[n] = graph.operands[n]

(* add_edges_for_recompute_ops moves the edges of backward nodes and       *)
(* nothing else.                                                           *)
LEMMA EdgesMoved ==
  ASSUME AllCloned, NEW h, h = [graph EXCEPT !.operands =
                    [n \in DOMAIN @ |-> IF is_backward(graph, n) /\ n \notin Range(fwd_to_recompute)
                                        THEN ReadsRecomputed(graph, n) ELSE @[n]]]
  PROVE  Moved(h)
<1> DEFINE g == graph
           N == ToSet(g.nodes)
           Read(n) == IF is_backward(g, n) /\ n \notin Range(fwd_to_recompute)
                      THEN ReadsRecomputed(g, n) ELSE g.operands[n]
           operands == [n \in N |-> Read(n)]
<1>1. /\ g \in AllGraphs /\ Sound(g)
      /\ g.nodes \in Seq(Names) /\ DOMAIN g.operands = N /\ g.node \in [N -> NodeRecords]
      /\ g.loopback \in SUBSET (Names \X Names) /\ g.inputs \in Seq(Names) /\ g.outputs \in Seq(Names)
  BY SoundIs DEF AllCloned, Good, Sound
<1>2. h = [g EXCEPT !.operands = operands]
  BY <1>1
<1>3. g = [nodes |-> g.nodes, node |-> g.node, operands |-> g.operands, loopback |-> g.loopback,
           inputs |-> g.inputs, outputs |-> g.outputs]
  BY <1>1 DEF AllGraphs
<1>4. h = [nodes |-> g.nodes, node |-> g.node, operands |-> operands, loopback |-> g.loopback,
           inputs |-> g.inputs, outputs |-> g.outputs]
  <2> HIDE DEF operands, g
  <2> QED BY <1>2, <1>3
<1>5. \A n \in N : Read(n) \in Seq(N) /\ \A m \in ToSet(Read(n)) : m[1] < n[1]
  BY <1>1, SoundOperands, ReadsRecomputedIs
<1>6. operands \in [N -> Seq(N)] /\ \A n \in N : operands[n] = Read(n)
  <2> HIDE DEF Read, N
  <2> QED BY <1>5
<1>7. Parts(h, g.nodes, g.node, operands, g.loopback, g.inputs, g.outputs)
  <2> HIDE DEF operands, Read
  <2> QED BY <1>1, <1>4, <1>5, <1>6 DEF Parts
<1> HIDE DEF operands
<1>8. Sound(h) /\ h.nodes = g.nodes /\ h.node = g.node /\ h.operands = operands
      /\ h.loopback = g.loopback /\ h.inputs = g.inputs /\ h.outputs = g.outputs
  <2> DEFINE nodes == g.nodes
             node == g.node
             loopback == g.loopback
             inputs == g.inputs
             outputs == g.outputs
  <2>1. Parts(h, nodes, node, operands, loopback, inputs, outputs)
    BY <1>7
  <2> HIDE DEF nodes, node, loopback, inputs, outputs
  <2>2. /\ Sound(h)
        /\ h.nodes = nodes /\ h.node = node /\ h.operands = operands /\ h.loopback = loopback
        /\ h.inputs = inputs /\ h.outputs = outputs
    BY <2>1, PartsSound
  <2> QED BY <2>2 DEF nodes, node, loopback, inputs, outputs
<1>9. \A n \in N : h.operands[n] = IF is_backward(g, n) /\ ~IsClone(n) THEN ReadsRecomputed(g, n) ELSE g.operands[n]
  BY <1>6, <1>8 DEF AllCloned
<1> QED BY <1>8, <1>9 DEF Moved

(* Then backward reads no forward op.                                      *)
LEMMA MovedIsRecomputed ==
  ASSUME AllCloned, NEW h, Moved(h)
  PROVE  /\ Plain(h) /\ Recomputed(h) /\ \A n \in ToSet(h.nodes) : CloneGood(h, n)
<1> DEFINE g == graph
           N == ToSet(g.nodes)
<1>1. /\ Good(g) /\ Sound(g) /\ Sound(h) /\ h.nodes = g.nodes /\ h.node = g.node
      /\ h.outputs = g.outputs /\ h.loopback = g.loopback /\ h.inputs = g.inputs
  BY DEF AllCloned, Moved, Good
<1>2. \A n \in N : /\ ~is_backward(g, n) \/ IsClone(n) => h.operands[n] = g.operands[n]
                   /\ is_backward(g, n) /\ ~IsClone(n) => h.operands[n] = ReadsRecomputed(g, n)
  BY DEF Moved
<1>3. \A n \in N : /\ Len(h.operands[n]) = Len(g.operands[n])
                   /\ is_forward(h, n) = is_forward(g, n) /\ is_backward(h, n) = is_backward(g, n)
                   /\ is_forward(g, n) => ~is_backward(g, n)
  BY <1>1, <1>2, ReadsRecomputedIs DEF is_forward, is_backward
<1>4. \A n \in N : NodeGood(g, n)
  BY <1>1 DEF Good
<1>5. \A n \in N : NopGood(h, n) /\ NameGood(n)
  BY <1>1, <1>3, <1>4 DEF NodeGood, NopGood, is_optimizer
<1>6. LoopbackGood(h)
  BY <1>1 DEF Good, LoopbackGood, is_optimizer
<1>7. \E V : Returns(h, V)
  <2>1. PICK V : Returns(g, V)
    BY <1>1 DEF Good
  <2>2. Returns(h, V)
    BY <1>1, <1>2, <1>3, <2>1 DEF Returns
  <2> QED BY <2>2
<1>8. \A m \in N : UsedInForward(g, m) => UsedInForward(h, m)
  BY <1>1, <1>2, <1>3 DEF UsedInForward
<1>9. \A n \in N : ToSet(g.operands[n]) \subseteq N
  BY <1>1, SoundOperands
<1>10. ASSUME NEW n \in N PROVE CloneGood(h, n)
  BY <1>1, <1>2, <1>3, <1>4, <1>8, <1>9, <1>10 DEF NodeGood, CloneGood
<1>11. ASSUME NEW n \in N, is_backward(g, n), ~IsClone(n), NEW x \in ToSet(h.operands[n])
       PROVE  \E m \in ToSet(g.operands[n]) : x = Recomputation(m) /\ m \in N
  BY <1>2, <1>9, <1>11, ReadsRecomputedIs
<1>12. \A c \in N : IsClone(c) => is_backward(g, c)
  BY <1>4 DEF NodeGood, CloneGood
<1>13. ASSUME NEW n \in N PROVE ReadsNoForward(h, n)
  <2> SUFFICES ASSUME is_backward(g, n), NEW x \in ToSet(h.operands[n])
               PROVE  ~(is_forward(h, x) /\ h.node[x].type = "PyOp")
    BY <1>3 DEF ReadsNoForward
  <2>1. CASE IsClone(n)
    <3>1. x \in N /\ (IsClone(x) \/ h.node[x].type = "Input")
      BY <1>2, <1>1, <1>4, <1>9, <2>1 DEF NodeGood, CloneGood
    <3> QED BY <1>3, <1>12, <3>1
  <2>2. CASE ~IsClone(n)
    <3>1. PICK m \in N : x = Recomputation(m)
      BY <1>11, <2>2
    <3>2. CASE m \in DOMAIN fwd_to_recompute
      <4>1. x \in N /\ IsClone(x)
        BY <3>1, <3>2 DEF Recomputation, AllCloned
      <4> QED BY <1>3, <1>12, <4>1
    <3>3. CASE m \notin DOMAIN fwd_to_recompute
      BY <1>1, <1>3, <3>1, <3>3 DEF Recomputation, AllCloned
    <3> QED BY <3>2, <3>3
  <2> QED BY <2>1, <2>2
<1>14. ASSUME NEW n \in N PROVE NopReadsNoClone(h, n)
  <2> SUFFICES ASSUME g.node[n].kind = "nop", ~IsClone(n), NEW x \in ToSet(h.operands[n])
               PROVE  ~IsClone(x)
    BY <1>1 DEF NopReadsNoClone
  <2>1. OtherGood(g, n)
    BY <1>4 DEF NodeGood
  <2>2. CASE ~is_backward(g, n)
    BY <1>2, <2>1, <2>2 DEF OtherGood
  <2>3. CASE is_backward(g, n)
    <3>1. PICK m \in ToSet(g.operands[n]) : x = Recomputation(m) /\ m \in N
      BY <1>11, <2>3
    <3>2. ~is_forward(g, m) /\ ~IsClone(m)
      BY <2>1, <2>3, <3>1 DEF OtherGood
    <3>3. m \notin DOMAIN fwd_to_recompute
      BY <3>2 DEF AllCloned
    <3> QED BY <3>1, <3>2, <3>3 DEF Recomputation
  <2> QED BY <2>2, <2>3
<1>15. Recomputed(h)
  BY <1>1, <1>3, <1>12, <1>13, <1>14 DEF Recomputed
<1>16. \A n \in ToSet(h.inputs) : n \in N => InputGood(h, n)
  BY <1>1 DEF Good, InputsGood, InputGood, is_forward, is_backward
<1> QED BY <1>1, <1>5, <1>6, <1>7, <1>10, <1>15, <1>16 DEF Plain

(* add_edges_for_recompute_ops keeps the invariant.                        *)
LEMMA EdgesForRecomputeOpsInv ==
  ASSUME GraphInv, add_edges_for_recompute_ops
  PROVE  GraphInv'
<1>1. /\ stage = "create_recompute_ops" /\ todo = <<>> /\ stage' = "remove_recompute_ops"
      /\ todo' = Only(graph.nodes, Range(fwd_to_recompute))
      /\ config' = config /\ fwd_to_recompute' = fwd_to_recompute
  BY DEF add_edges_for_recompute_ops
<1>2. AllCloned /\ config \in [optimizer : Optimizers, recompute : BOOLEAN] /\ config.recompute
  BY <1>1, AllAreCloned DEF GraphInv, Recomputing
<1>3. Moved(graph')
  BY <1>2, EdgesMoved DEF add_edges_for_recompute_ops
<1>4. /\ Plain(graph') /\ Recomputed(graph') /\ \A n \in ToSet(graph'.nodes) : CloneGood(graph', n)
  BY <1>2, <1>3, MovedIsRecomputed
<1>5. graph'.nodes = graph.nodes
  BY <1>3 DEF Moved
<1>6. PICK t : t = todo'
  OBVIOUS
<1>7. t \in Seq(Names) /\ ToSet(t) = ToSet(graph.nodes) \cap Range(fwd_to_recompute)
  <2>1. graph.nodes \in Seq(Names)
    BY <1>2, SoundIs DEF AllCloned, Good
  <2> QED BY <1>1, <1>6, <2>1, OnlyElements
<1>8. \A n \in ToSet(graph.nodes) : IsClone(n) <=> n \in ToSet(t)
  BY <1>2, <1>7 DEF AllCloned
<1>9. RemovingInv'
  <2>1. \A n \in ToSet(t) : IsClone(n)
    BY <1>7, <1>8
  <2> QED BY <1>4, <1>5, <1>6, <1>7, <1>8, <2>1 DEF RemovingInv
<1>10. RecomputedInv'
  BY <1>1, <1>2, <1>4 DEF RecomputedInv, AllCloned, Finishing
<1> QED BY <1>1, <1>2, <1>4, <1>9, <1>10
        DEF GraphInv, AddingInv, CloningInv, Adding, Recomputing, Finishing

(* Who reads a node, or is updated by it.                                  *)
UserOf(g, n, m) == n \in ToSet(g.operands[m]) \/ <<n, m>> \in g.loopback

IsEmpty(s) == s = <<>>

(* A sequence is empty when it has no elements.                            *)
LEMMA EmptyElements ==
  ASSUME NEW X, NEW s, s \in Seq(X)
  PROVE  /\ IsEmpty(s) => ToSet(s) = {}
         /\ ~IsEmpty(s) => ToSet(s) # {}
<1>1. ASSUME s = <<>> PROVE ToSet(s) = {}
  BY <1>1 DEF ToSet
<1>2. ASSUME s # <<>> PROVE ToSet(s) # {}
  <2>1. s[1] \in ToSet(s)
    BY <1>2, SeqElements
  <2> QED BY <2>1
<1> QED BY <1>1, <1>2 DEF IsEmpty

(* A node has no data users when nobody is a user of it.                   *)
LEMMA DataUsersIs ==
  ASSUME NEW g, Sound(g), NEW n
  PROVE  /\ data_users(g, n) \in Seq(ToSet(g.nodes))
         /\ ToSet(data_users(g, n)) = {m \in ToSet(g.nodes) : UserOf(g, n, m)}
         /\ data_users(g, n) = <<>> <=> \A m \in ToSet(g.nodes) : ~UserOf(g, n, m)
<1> DEFINE N == ToSet(g.nodes)
           S == {m \in DOMAIN g.node : n \in ToSet(g.operands[m]) \/ <<n, m>> \in g.loopback}
           s == data_users(g, n)
<1>1. g.nodes \in Seq(N) /\ DOMAIN g.node = N
  BY SoundIs
<1>2. S = {m \in N : UserOf(g, n, m)}
  BY <1>1 DEF UserOf
<1>3. s = Only(g.nodes, S)
  BY DEF data_users
<1> HIDE DEF S, s
<1>4. s \in Seq(N) /\ ToSet(s) = N \cap S
  <2> HIDE DEF N
  <2> QED BY <1>1, <1>3, OnlyElements DEF N
<1>5. /\ IsEmpty(s) => ToSet(s) = {}
      /\ ~IsEmpty(s) => ToSet(s) # {}
  <2> HIDE DEF N
  <2> QED BY <1>4, EmptyElements
<1>6. IsEmpty(s) <=> \A m \in N : ~UserOf(g, n, m)
  BY <1>2, <1>4, <1>5
<1> QED BY <1>2, <1>4, <1>6 DEF s, IsEmpty

(* What h is when node n is removed from g.                                *)
Removed(g, h, n) ==
  /\ Sound(h) /\ ToSet(h.nodes) = ToSet(g.nodes) \ {n}
  /\ \A m \in ToSet(h.nodes) : h.node[m] = g.node[m] /\ h.operands[m] = g.operands[m]
  /\ h.loopback = g.loopback /\ h.inputs = g.inputs /\ h.outputs = g.outputs

(* The parts of a graph that a node is removed from.                       *)
LEMMA RemoveParts ==
  ASSUME NEW g, Sound(g), NEW n \in ToSet(g.nodes), NEW M, M = ToSet(g.nodes) \ {n}
  PROVE  /\ remove_node(g, n) = [nodes |-> Only(g.nodes, M), node |-> [m \in M |-> g.node[m]],
                                 operands |-> [m \in M |-> g.operands[m]], loopback |-> g.loopback,
                                 inputs |-> g.inputs, outputs |-> g.outputs]
         /\ Only(g.nodes, M) \in Seq(Names) /\ ToSet(Only(g.nodes, M)) = M
         /\ [m \in M |-> g.node[m]] \in [M -> NodeRecords]
<1>1. g \in AllGraphs /\ DOMAIN g.node = ToSet(g.nodes) /\ DOMAIN g.operands = ToSet(g.nodes)
      /\ g.nodes \in Seq(Names) /\ g.node \in [ToSet(g.nodes) -> NodeRecords]
  BY SoundIs DEF Sound
<1>2. g = [nodes |-> g.nodes, node |-> g.node, operands |-> g.operands, loopback |-> g.loopback,
           inputs |-> g.inputs, outputs |-> g.outputs]
  BY <1>1 DEF AllGraphs
<1>3. remove_node(g, n) = [g EXCEPT !.nodes = Only(g.nodes, M), !.node = [m \in M |-> g.node[m]],
                                    !.operands = [m \in M |-> g.operands[m]]]
  BY <1>1 DEF remove_node
<1>4. Only(g.nodes, M) \in Seq(Names) /\ ToSet(Only(g.nodes, M)) = M
  BY <1>1, OnlyElements
<1>5. [m \in M |-> g.node[m]] \in [M -> NodeRecords]
  BY <1>1
<1> DEFINE nodes == Only(g.nodes, M)
           node == [m \in M |-> g.node[m]]
           operands == [m \in M |-> g.operands[m]]
           h == remove_node(g, n)
<1>6. h = [g EXCEPT !.nodes = nodes, !.node = node, !.operands = operands]
  BY <1>3
<1> HIDE DEF nodes, node, operands, h
<1>7. h = [nodes |-> nodes, node |-> node, operands |-> operands, loopback |-> g.loopback,
           inputs |-> g.inputs, outputs |-> g.outputs]
  BY <1>2, <1>6
<1> QED BY <1>4, <1>5, <1>7 DEF nodes, node, operands, h

(* remove_node removes a node that nobody reads from a sound graph.        *)
LEMMA RemoveNode ==
  ASSUME NEW g, Sound(g), NEW n \in ToSet(g.nodes), \A m \in ToSet(g.nodes) : n \notin ToSet(g.operands[m])
  PROVE  Removed(g, remove_node(g, n), n)
<1> DEFINE M == ToSet(g.nodes) \ {n}
           h == remove_node(g, n)
           nodes == Only(g.nodes, M)
           node == [m \in M |-> g.node[m]]
           operands == [m \in M |-> g.operands[m]]
           loopback == g.loopback
           inputs == g.inputs
           outputs == g.outputs
<1>1. /\ h = [nodes |-> nodes, node |-> node, operands |-> operands, loopback |-> loopback,
             inputs |-> inputs, outputs |-> outputs]
      /\ nodes \in Seq(Names) /\ ToSet(nodes) = M /\ node \in [M -> NodeRecords]
  <2>1. PICK X : X = M
    OBVIOUS
  <2>2. /\ remove_node(g, n) = [nodes |-> Only(g.nodes, X), node |-> [m \in X |-> g.node[m]],
                                 operands |-> [m \in X |-> g.operands[m]], loopback |-> g.loopback,
                                 inputs |-> g.inputs, outputs |-> g.outputs]
         /\ Only(g.nodes, X) \in Seq(Names) /\ ToSet(Only(g.nodes, X)) = X
         /\ [m \in X |-> g.node[m]] \in [X -> NodeRecords]
    BY <2>1, RemoveParts
  <2> QED BY <2>1, <2>2
<1>2. loopback \in SUBSET (Names \X Names) /\ inputs \in Seq(Names) /\ outputs \in Seq(Names)
  BY SoundIs
<1>3. \A m \in M : /\ g.operands[m] \in Seq(M)
                   /\ \A x \in ToSet(g.operands[m]) : x[1] < m[1]
  <2> SUFFICES ASSUME NEW m \in M
               PROVE  /\ g.operands[m] \in Seq(M)
                      /\ \A x \in ToSet(g.operands[m]) : x[1] < m[1]
    OBVIOUS
  <2>1. /\ g.operands[m] \in Seq(ToSet(g.nodes)) /\ ToSet(g.operands[m]) \subseteq ToSet(g.nodes)
        /\ \A x \in ToSet(g.operands[m]) : x[1] < m[1]
    BY SoundOperands
  <2>2. ToSet(g.operands[m]) \subseteq M
    BY <2>1
  <2> HIDE DEF M
  <2> QED BY <2>1, <2>2, SeqLarger
<1>4. operands \in [M -> Seq(M)] /\ \A m \in M : operands[m] = g.operands[m] /\ node[m] = g.node[m]
  <2> HIDE DEF M
  <2> QED BY <1>3
<1> HIDE DEF M, nodes, node, operands, loopback, inputs, outputs, h
<1>5. Parts(h, nodes, node, operands, loopback, inputs, outputs)
  BY <1>1, <1>2, <1>3, <1>4 DEF Parts
<1>6. /\ Sound(h)
      /\ h.nodes = nodes /\ h.node = node /\ h.operands = operands /\ h.loopback = loopback
      /\ h.inputs = inputs /\ h.outputs = outputs
  BY <1>5, PartsSound
<1> QED BY <1>1, <1>4, <1>6 DEF Removed, M, loopback, inputs, outputs, h

(* A backward node that nobody reads can go.                               *)
LEMMA RemovedPlain ==
  ASSUME NEW g, Plain(g), Recomputed(g), NEW n \in ToSet(g.nodes), is_backward(g, n),
         NEW h, Removed(g, h, n)
  PROVE  Plain(h) /\ Recomputed(h)
<1> DEFINE N == ToSet(g.nodes)
           M == ToSet(h.nodes)
<1>1. /\ Sound(g) /\ Sound(h) /\ M = N \ {n} /\ h.loopback = g.loopback /\ h.outputs = g.outputs
      /\ \A m \in M : h.node[m] = g.node[m] /\ h.operands[m] = g.operands[m]
  BY DEF Plain, Removed
<1>2. \A m \in M : ToSet(h.operands[m]) \subseteq M
  BY <1>1, SoundOperands
<1>3. \A m \in M : m \in N /\ NopGood(h, m) /\ NameGood(m)
  BY <1>1 DEF Plain, NopGood, is_optimizer
<1>4. LoopbackGood(h)
  BY <1>1 DEF Plain, LoopbackGood, is_backward, is_optimizer
<1>5. \E V : Returns(h, V)
  <2>1. PICK V : Returns(g, V)
    BY DEF Plain
  <2>2. /\ \A o \in ToSet(g.outputs) : o \in M
        /\ \A m \in V : m \in M
    BY <1>1, <2>1 DEF Returns, is_forward, is_backward
  <2>3. Returns(h, V)
    BY <1>1, <2>1, <2>2 DEF Returns, is_forward
  <2> QED BY <2>3
<1>6. Recomputed(h)
  <2>1. \A m \in M : ReadsNoForward(h, m)
    BY <1>1, <1>2 DEF Recomputed, ReadsNoForward, is_forward, is_backward
  <2>2. \A m \in M : NopReadsNoClone(h, m)
    BY <1>1 DEF Recomputed, NopReadsNoClone
  <2>3. \A m \in M : IsClone(m) => is_backward(h, m)
    BY <1>1 DEF Recomputed, is_backward
  <2> QED BY <2>1, <2>2, <2>3 DEF Recomputed
<1>7. \A m \in ToSet(h.inputs) : m \in M => InputGood(h, m)
  <2>1. h.inputs = g.inputs
    BY DEF Removed
  <2> QED BY <1>1, <2>1 DEF Plain, InputGood, is_forward, is_backward
<1> QED BY <1>1, <1>3, <1>4, <1>5, <1>6, <1>7 DEF Plain

(* Clones stay good when a backward node that nobody reads is removed.     *)
LEMMA RemovedCloneGood ==
  ASSUME NEW g, Sound(g), NEW n \in ToSet(g.nodes), is_backward(g, n), NEW h, Removed(g, h, n)
  PROVE  /\ \A m : UsedInForward(g, m) => UsedInForward(h, m)
         /\ \A m \in ToSet(h.nodes) : CloneGood(g, m) => CloneGood(h, m)
<1> DEFINE N == ToSet(g.nodes)
           M == ToSet(h.nodes)
<1>1. /\ Sound(h) /\ M = N \ {n}
      /\ \A m \in M : h.node[m] = g.node[m] /\ h.operands[m] = g.operands[m]
  BY DEF Removed
<1>2. ASSUME NEW m, UsedInForward(g, m) PROVE UsedInForward(h, m)
  <2>1. PICK u \in N : is_forward(g, u) /\ m \in ToSet(g.operands[u])
    BY <1>2 DEF UsedInForward
  <2>2. u \in M
    BY <1>1, <2>1 DEF is_forward, is_backward
  <2> QED BY <1>1, <2>1, <2>2 DEF UsedInForward, is_forward
<1>3. ASSUME NEW m \in M, CloneGood(g, m) PROVE CloneGood(h, m)
  <2>1. ToSet(h.operands[m]) \subseteq M
    BY <1>1, SoundOperands
  <2> QED BY <1>1, <1>2, <1>3, <2>1 DEF CloneGood, is_forward, is_backward
<1> QED BY <1>2, <1>3

(* The elements of two sequences, one after the other.                     *)
LEMMA SeqConcat ==
  ASSUME NEW X, NEW s \in Seq(X), NEW t \in Seq(X)
  PROVE  s \o t \in Seq(X) /\ ToSet(s \o t) = ToSet(s) \cup ToSet(t)
<1> DEFINE u == s \o t
           k == Len(s)
           l == Len(t)
<1>1. /\ u \in Seq(X) /\ Len(u) = k + l /\ k \in Nat /\ l \in Nat
      /\ \A i \in 1..k : u[i] = s[i] /\ i \in 1..(k + l)
      /\ \A i \in 1..l : u[k + i] = t[i] /\ k + i \in 1..(k + l)
      /\ \A i \in 1..(k + l) : i \in 1..k \/ (i - k \in 1..l /\ k + (i - k) = i)
  OBVIOUS
<1>2. ToSet(s) = {s[i] : i \in 1..k} /\ ToSet(t) = {t[i] : i \in 1..l} /\ ToSet(u) = {u[i] : i \in 1..(k + l)}
  BY <1>1, SeqElements
<1> HIDE DEF u, k, l
<1>3. ToSet(u) \subseteq ToSet(s) \cup ToSet(t)
  <2> SUFFICES ASSUME NEW i \in 1..(k + l) PROVE u[i] \in ToSet(s) \cup ToSet(t)
    BY <1>2
  <2>1. CASE i \in 1..k
    BY <1>1, <1>2, <2>1
  <2>2. CASE i - k \in 1..l /\ k + (i - k) = i
    <3> DEFINE j == i - k
    <3>1. j \in 1..l /\ k + j = i
      BY <2>2
    <3> HIDE DEF j
    <3>2. u[i] = t[j]
      BY <1>1, <3>1
    <3> QED BY <1>2, <3>1, <3>2
  <2> QED BY <1>1, <2>1, <2>2
<1>4. ToSet(s) \subseteq ToSet(u) /\ ToSet(t) \subseteq ToSet(u)
  BY <1>1, <1>2
<1> QED BY <1>1, <1>3, <1>4 DEF u

(* Where the loop that removes recomputed ops is.                          *)
LEMMA RemovingStage ==
  ASSUME GraphInv, stage = "remove_recompute_ops"
  PROVE  /\ Plain(graph) /\ Sound(graph) /\ Recomputed(graph)
         /\ config \in [optimizer : Optimizers, recompute : BOOLEAN] /\ config.recompute
         /\ \A n \in DOMAIN fwd_to_recompute : IsClone(fwd_to_recompute[n])
         /\ \A n \in ToSet(graph.nodes) : CloneGood(graph, n)
         /\ todo \in Seq(Names)
         /\ \A n \in ToSet(todo) : IsClone(n) \/ UsedInForward(graph, n)
         /\ \A n \in ToSet(graph.nodes) : IsClone(n) => Used(graph, n) \/ n \in ToSet(todo)
<1>1. config.recompute /\ Plain(graph) /\ config \in [optimizer : Optimizers, recompute : BOOLEAN]
  BY DEF GraphInv, Recomputing
<1>2. Recomputed(graph) /\ \A n \in DOMAIN fwd_to_recompute : IsClone(fwd_to_recompute[n])
  BY <1>1 DEF GraphInv, RecomputedInv
<1> QED BY <1>1, <1>2 DEF GraphInv, RemovingInv, Plain

(* The invariant in the next state of that loop.                           *)
LEMMA RemovingStep ==
  ASSUME GraphInv, stage = "remove_recompute_ops", stage' = stage, config' = config,
         fwd_to_recompute' = fwd_to_recompute, Plain(graph'), Recomputed(graph'),
         NEW t, todo' = t, t \in Seq(Names),
         \A n \in ToSet(graph'.nodes) : CloneGood(graph', n),
         \A n \in ToSet(t) : IsClone(n) \/ UsedInForward(graph', n),
         \A n \in ToSet(graph'.nodes) : IsClone(n) => Used(graph', n) \/ n \in ToSet(t)
  PROVE  GraphInv'
<1>1. RemovingInv'
  BY DEF RemovingInv
<1>2. RecomputedInv'
  BY RemovingStage DEF RecomputedInv, Finishing
<1> QED BY <1>1, <1>2, RemovingStage
        DEF GraphInv, AddingInv, CloningInv, Adding, Recomputing, Finishing

(* remove_recompute_op keeps the invariant.                                *)
LEMMA RemoveRecomputeOpInv ==
  ASSUME GraphInv, remove_recompute_op
  PROVE  GraphInv'
<1>1. /\ stage = "remove_recompute_ops" /\ todo # <<>> /\ stage' = stage /\ config' = config
      /\ fwd_to_recompute' = fwd_to_recompute
  BY DEF remove_recompute_op
<1>2. PICK g : g = graph
  OBVIOUS
<1>3. PICK s : s = todo
  OBVIOUS
<1> DEFINE n == Head(s)
           N == ToSet(g.nodes)
<1>4. /\ Plain(g) /\ Sound(g) /\ Recomputed(g)
      /\ \A m \in N : CloneGood(g, m)
      /\ s \in Seq(Names)
      /\ \A m \in ToSet(s) : IsClone(m) \/ UsedInForward(g, m)
      /\ \A m \in N : IsClone(m) => Used(g, m) \/ m \in ToSet(s)
  BY <1>1, <1>2, <1>3, RemovingStage
<1>5. n \in ToSet(s) /\ Tail(s) \in Seq(Names) /\ ToSet(s) = {n} \cup ToSet(Tail(s))
  BY <1>1, <1>3, <1>4, SeqHeadTail
<1> HIDE DEF n
<1>6. DOMAIN g.node = N
  BY <1>4, SoundIs
<1>7. CASE n \in N /\ data_users(g, n) = <<>>
  <2>1. graph' = remove_node(g, n) /\ todo' = Tail(s) \o g.operands[n]
    BY <1>2, <1>3, <1>6, <1>7 DEF remove_recompute_op, n
  <2>2. \A m \in N : ~UserOf(g, n, m)
    BY <1>4, <1>7, DataUsersIs
  <2>3. \A m \in N : n \notin ToSet(g.operands[m])
    BY <2>2 DEF UserOf
  <2>4. PICK h : h = graph'
    OBVIOUS
  <2>5. Removed(g, h, n)
    BY <1>4, <1>7, <2>1, <2>3, <2>4, RemoveNode
  <2>6. IsClone(n) /\ is_backward(g, n)
    <3>1. ~UsedInForward(g, n)
      BY <2>3 DEF UsedInForward
    <3>2. IsClone(n)
      BY <1>4, <1>5, <3>1
    <3> QED BY <1>4, <1>7, <3>2 DEF CloneGood
  <2>7. Plain(h) /\ Recomputed(h)
    BY <1>4, <1>7, <2>5, <2>6, RemovedPlain
  <2>8. /\ \A m : UsedInForward(g, m) => UsedInForward(h, m)
        /\ \A m \in ToSet(h.nodes) : CloneGood(g, m) => CloneGood(h, m)
    BY <1>4, <1>7, <2>5, <2>6, RemovedCloneGood
  <2>9. ToSet(h.nodes) = N \ {n} /\ \A m \in ToSet(h.nodes) : h.operands[m] = g.operands[m]
    BY <2>5 DEF Removed
  <2> DEFINE o == g.operands[n]
             t == Tail(s) \o o
  <2>10. /\ o \in Seq(Names)
         /\ \A m \in ToSet(o) : IsClone(m) \/ UsedInForward(g, m)
    <3>1. o \in Seq(N) /\ N \subseteq Names
      BY <1>4, <1>7, SoundOperands, SoundIs
    <3>2. o \in Seq(Names)
      <4> HIDE DEF o, N
      <4> QED BY <3>1
    <3>3. CloneGood(g, n)
      BY <1>4, <1>7
    <3> QED BY <2>6, <3>2, <3>3 DEF CloneGood
  <2> HIDE DEF o
  <2>11. t \in Seq(Names) /\ ToSet(t) = ToSet(Tail(s)) \cup ToSet(o)
    <3> DEFINE r == Tail(s)
    <3>1. r \in Seq(Names) /\ o \in Seq(Names)
      BY <1>5, <2>10
    <3> HIDE DEF r
    <3>2. r \o o \in Seq(Names) /\ ToSet(r \o o) = ToSet(r) \cup ToSet(o)
      BY <3>1, SeqConcat
    <3> QED BY <3>2 DEF r
  <2>12. todo' = t
    BY <2>1 DEF o
  <2> HIDE DEF t
  <2>13. \A m \in ToSet(t) : IsClone(m) \/ UsedInForward(h, m)
    BY <1>4, <1>5, <2>8, <2>10, <2>11
  <2>14. ASSUME NEW m \in ToSet(h.nodes), IsClone(m) PROVE Used(h, m) \/ m \in ToSet(t)
    <3>1. m \in N /\ m # n
      BY <2>9
    <3>2. CASE Used(g, m)
      <4>1. PICK u \in N : m \in ToSet(g.operands[u])
        BY <3>2 DEF Used
      <4>2. CASE u = n
        BY <2>11, <4>1, <4>2 DEF o
      <4>3. CASE u # n
        BY <2>9, <4>1, <4>3 DEF Used
      <4> QED BY <4>2, <4>3
    <3>3. CASE m \in ToSet(s)
      BY <1>5, <2>11, <3>1, <3>3
    <3> QED BY <1>4, <2>14, <3>1, <3>2, <3>3
  <2>15. \A m \in ToSet(h.nodes) : CloneGood(h, m)
    BY <1>4, <2>8, <2>9
  <2> QED BY <1>1, <2>4, <2>7, <2>11, <2>12, <2>13, <2>14, <2>15, RemovingStep
<1>8. CASE ~(n \in N /\ data_users(g, n) = <<>>)
  <2>1. graph' = g /\ todo' = Tail(s) \o <<>>
    BY <1>2, <1>3, <1>6, <1>8 DEF remove_recompute_op, n
  <2>2. todo' = Tail(s)
    BY <1>5, <2>1
  <2>3. ASSUME NEW m \in N, IsClone(m) PROVE Used(g, m) \/ m \in ToSet(Tail(s))
    <3>1. CASE m = n
      <4>1. PICK u \in N : UserOf(g, n, u)
        BY <1>4, <1>8, <3>1, DataUsersIs
      <4>2. <<n, u>> \notin g.loopback
        <5>1. is_backward(g, n)
          BY <1>4, <2>3, <3>1 DEF CloneGood
        <5>2. ~is_optimizer(g, n)
          BY <5>1 DEF is_backward, is_optimizer
        <5> QED BY <1>4, <5>2 DEF Plain, LoopbackGood
      <4> QED BY <3>1, <4>1, <4>2 DEF UserOf, Used
    <3>2. CASE m # n
      BY <1>4, <1>5, <2>3, <3>2
    <3> QED BY <3>1, <3>2
  <2>4. \A m \in ToSet(Tail(s)) : IsClone(m) \/ UsedInForward(g, m)
    BY <1>4, <1>5
  <2> QED BY <1>1, <1>4, <1>5, <2>1, <2>2, <2>3, <2>4, RemovingStep
<1> QED BY <1>7, <1>8

(* recompute_ops_removed keeps the invariant.                              *)
LEMMA RecomputeOpsRemovedInv ==
  ASSUME GraphInv, recompute_ops_removed
  PROVE  GraphInv'
<1>1. /\ stage = "remove_recompute_ops" /\ stage' = "remove_nops" /\ todo = <<>> /\ config' = config
      /\ graph' = graph /\ fwd_to_recompute' = fwd_to_recompute
  BY DEF recompute_ops_removed
<1>2. /\ Plain(graph) /\ Recomputed(graph)
      /\ config \in [optimizer : Optimizers, recompute : BOOLEAN] /\ config.recompute
      /\ \A n \in DOMAIN fwd_to_recompute : IsClone(fwd_to_recompute[n])
      /\ \A n \in ToSet(graph.nodes) : IsClone(n) => Used(graph, n) \/ n \in ToSet(todo)
  BY <1>1, RemovingStage
<1>3. ToSet(todo) = {}
  BY <1>1 DEF ToSet
<1>4. RecomputedInv'
  BY <1>1, <1>2, <1>3 DEF RecomputedInv
<1> QED BY <1>1, <1>2, <1>4
        DEF GraphInv, AddingInv, CloningInv, RemovingInv, Adding, Recomputing, Finishing, Plain

-----------------------------------------------------------------------------
(* Removal of the nops.                                                    *)

(* What h is when node n of g is bypassed: its users read its operand.     *)
Bypassed(g, h, n) ==
  /\ Sound(h) /\ ToSet(h.nodes) = ToSet(g.nodes) \ {n}
  /\ \A m \in ToSet(h.nodes) :
        /\ h.node[m] = g.node[m] /\ Len(h.operands[m]) = Len(g.operands[m])
        /\ \A i \in 1..Len(g.operands[m]) :
              h.operands[m][i] = IF g.operands[m][i] = n THEN g.operands[n][1] ELSE g.operands[m][i]
  /\ h.loopback = g.loopback /\ h.inputs = g.inputs /\ h.outputs = g.outputs

(* The operands of m when n is bypassed.                                   *)
PastOperands(g, n, m) ==
  [i \in DOMAIN g.operands[m] |-> IF g.operands[m][i] = n THEN g.operands[n][1] ELSE g.operands[m][i]]

(* Those operands are other nodes, with lower numbers.                     *)
LEMMA PastOperandsAre ==
  ASSUME NEW g, Sound(g), NEW n \in ToSet(g.nodes), Len(g.operands[n]) = 1,
         NEW M, M = ToSet(g.nodes) \ {n}, NEW m \in M
  PROVE  /\ PastOperands(g, n, m) \in Seq(M) /\ Len(PastOperands(g, n, m)) = Len(g.operands[m])
         /\ \A x \in ToSet(PastOperands(g, n, m)) : x[1] < m[1]
         /\ \A i \in 1..Len(g.operands[m]) : PastOperands(g, n, m)[i] =
               IF g.operands[m][i] = n THEN g.operands[n][1] ELSE g.operands[m][i]
<1> DEFINE N == ToSet(g.nodes)
           s == g.operands[m]
           x == g.operands[n][1]
           p == PastOperands(g, n, m)
           Past(y) == IF y = n THEN x ELSE y
<1>1. x \in M /\ x[1] < n[1]
  <2>1. 1 \in 1..Len(g.operands[n])
    OBVIOUS
  <2>2. x \in ToSet(g.operands[n])
    BY <2>1, SoundOperands
  <2> QED BY <2>2, SoundOperands
<1>2. /\ DOMAIN s = 1..Len(s) /\ Len(s) \in Nat /\ \A i \in 1..Len(s) : s[i] \in N /\ s[i][1] < m[1]
  BY SoundOperands
<1>3. m[1] \in Nat /\ n[1] \in Nat /\ x[1] \in Nat
  BY <1>1, DagNumbers DEF Sound
<1>4. \A i \in 1..Len(s) : Past(s[i]) \in M /\ Past(s[i])[1] < m[1]
  BY <1>1, <1>2, <1>3
<1>5. p = [i \in 1..Len(s) |-> Past(s[i])]
  BY <1>2 DEF PastOperands
<1> HIDE DEF p, s, Past
<1>6. p \in Seq(M) /\ Len(p) = Len(s) /\ \A i \in 1..Len(s) : p[i] = Past(s[i])
  BY <1>2, <1>4, <1>5
<1>7. ToSet(p) = {p[i] : i \in 1..Len(s)}
  BY <1>6, SeqElements
<1>8. \A y \in ToSet(p) : y[1] < m[1]
  BY <1>4, <1>6, <1>7
<1> QED BY <1>6, <1>8 DEF p, s, Past

(* bypass_node bypasses a node with one operand in a sound graph.          *)
LEMMA BypassNode ==
  ASSUME NEW g, Sound(g), NEW n \in ToSet(g.nodes), Len(g.operands[n]) = 1
  PROVE  Bypassed(g, bypass_node(g, n), n)
<1> DEFINE h == bypass_node(g, n)
           old == remove_node(g, n)
<1>1. PICK M : M = ToSet(g.nodes) \ {n}
  OBVIOUS
<1> DEFINE nodes == Only(g.nodes, M)
           node == [m \in M |-> g.node[m]]
           kept == [m \in M |-> g.operands[m]]
           operands == [m \in M |-> PastOperands(g, n, m)]
           loopback == g.loopback
           inputs == g.inputs
           outputs == g.outputs
<1>2. /\ old = [nodes |-> nodes, node |-> node, operands |-> kept, loopback |-> loopback,
               inputs |-> inputs, outputs |-> outputs]
      /\ nodes \in Seq(Names) /\ ToSet(nodes) = M /\ node \in [M -> NodeRecords]
  BY <1>1, RemoveParts
<1>3. loopback \in SUBSET (Names \X Names) /\ inputs \in Seq(Names) /\ outputs \in Seq(Names)
  BY SoundIs
<1>4. h = [old EXCEPT !.operands = operands]
  <2>1. old.operands = kept /\ DOMAIN kept = M /\ \A m \in M : kept[m] = g.operands[m]
    <3>1. DOMAIN kept = M /\ \A m \in M : kept[m] = g.operands[m]
      OBVIOUS
    <3> HIDE DEF nodes, node, kept, loopback, inputs, outputs, old
    <3> QED BY <1>2, <3>1
  <2> HIDE DEF kept
  <2>2. h = [old EXCEPT !.operands =
               [m \in DOMAIN old.operands |-> [i \in DOMAIN old.operands[m] |->
                   IF old.operands[m][i] = n THEN g.operands[n][1] ELSE old.operands[m][i]]]]
    BY DEF bypass_node
  <2> HIDE DEF old, h
  <2> QED BY <2>1, <2>2 DEF PastOperands
<1>5. h = [nodes |-> nodes, node |-> node, operands |-> operands, loopback |-> loopback,
           inputs |-> inputs, outputs |-> outputs]
  <2> HIDE DEF nodes, node, kept, operands, loopback, inputs, outputs, old, h
  <2> QED BY <1>2, <1>4
<1>6. \A m \in M : /\ PastOperands(g, n, m) \in Seq(M) /\ Len(PastOperands(g, n, m)) = Len(g.operands[m])
                   /\ \A x \in ToSet(PastOperands(g, n, m)) : x[1] < m[1]
                   /\ \A i \in 1..Len(g.operands[m]) : PastOperands(g, n, m)[i] =
                         IF g.operands[m][i] = n THEN g.operands[n][1] ELSE g.operands[m][i]
  <2> DEFINE P(m) == /\ PastOperands(g, n, m) \in Seq(M) /\ Len(PastOperands(g, n, m)) = Len(g.operands[m])
                     /\ \A x \in ToSet(PastOperands(g, n, m)) : x[1] < m[1]
                     /\ \A i \in 1..Len(g.operands[m]) : PastOperands(g, n, m)[i] =
                           IF g.operands[m][i] = n THEN g.operands[n][1] ELSE g.operands[m][i]
  <2>1. ASSUME NEW m \in M PROVE P(m)
    BY <1>1, PastOperandsAre
  <2> QED BY <2>1
<1>7. operands \in [M -> Seq(M)] /\ \A m \in M : operands[m] = PastOperands(g, n, m) /\ node[m] = g.node[m]
  BY <1>6
<1> HIDE DEF nodes, node, operands, loopback, inputs, outputs, h, old
<1>8. Parts(h, nodes, node, operands, loopback, inputs, outputs)
  BY <1>2, <1>3, <1>5, <1>6, <1>7 DEF Parts
<1>9. /\ Sound(h)
      /\ h.nodes = nodes /\ h.node = node /\ h.operands = operands /\ h.loopback = loopback
      /\ h.inputs = inputs /\ h.outputs = outputs
  BY <1>8, PartsSound
<1>10. \A m \in M : /\ h.node[m] = g.node[m] /\ Len(h.operands[m]) = Len(g.operands[m])
                    /\ \A i \in 1..Len(g.operands[m]) : h.operands[m][i] =
                          IF g.operands[m][i] = n THEN g.operands[n][1] ELSE g.operands[m][i]
  BY <1>6, <1>7, <1>9
<1>11. ToSet(h.nodes) = ToSet(g.nodes) \ {n} /\ ToSet(h.nodes) = M
  BY <1>1, <1>2, <1>9
<1>12. h.loopback = g.loopback /\ h.inputs = g.inputs /\ h.outputs = g.outputs
  BY <1>9 DEF loopback, inputs, outputs
<1> QED BY <1>9, <1>10, <1>11, <1>12 DEF Bypassed, h

(* What is kept when nops are removed.                                     *)
Finished(g) ==
  /\ Plain(g)
  /\ config.recompute => Recomputed(g) /\ \A c \in ToSet(g.nodes) : IsClone(c) => Used(g, c)

(* What a node of h reads, it or its bypassed node read in g.              *)
LEMMA BypassedReads ==
  ASSUME NEW g, Sound(g), NEW h, NEW n \in ToSet(g.nodes), Bypassed(g, h, n), NEW m \in ToSet(h.nodes)
  PROVE  /\ \A y \in ToSet(h.operands[m]) :
               \/ y \in ToSet(g.operands[m]) /\ y # n
               \/ n \in ToSet(g.operands[m]) /\ y = g.operands[n][1]
         /\ \A y \in ToSet(g.operands[m]) :
               IF y = n THEN g.operands[n][1] \in ToSet(h.operands[m]) ELSE y \in ToSet(h.operands[m])
<1> DEFINE s == g.operands[m]
           t == h.operands[m]
           x == g.operands[n][1]
<1>1. /\ Sound(h) /\ m \in ToSet(g.nodes) /\ Len(t) = Len(s)
      /\ \A i \in 1..Len(s) : t[i] = IF s[i] = n THEN x ELSE s[i]
  BY DEF Bypassed
<1>2. ToSet(s) = {s[i] : i \in 1..Len(s)} /\ ToSet(t) = {t[i] : i \in 1..Len(s)}
  <2>1. s \in Seq(ToSet(g.nodes)) /\ t \in Seq(ToSet(h.nodes))
    BY <1>1, SoundOperands
  <2> HIDE DEF s, t
  <2> QED BY <1>1, <2>1, SeqElements
<1> HIDE DEF s, t, x
<1>3. \A y \in ToSet(t) : (y \in ToSet(s) /\ y # n) \/ (n \in ToSet(s) /\ y = x)
  BY <1>1, <1>2
<1>4. \A y \in ToSet(s) : IF y = n THEN x \in ToSet(t) ELSE y \in ToSet(t)
  BY <1>1, <1>2
<1> QED BY <1>3, <1>4 DEF s, t, x

(* A graph stays plain when a nop is bypassed.                             *)
LEMMA BypassedPlain ==
  ASSUME NEW g, Plain(g), NEW h, NEW n \in ToSet(g.nodes), g.node[n].kind = "nop", Bypassed(g, h, n)
  PROVE  Plain(h)
<1> DEFINE N == ToSet(g.nodes)
           M == ToSet(h.nodes)
           x == g.operands[n][1]
<1>1. /\ Sound(g) /\ Sound(h) /\ M = N \ {n} /\ h.loopback = g.loopback /\ h.outputs = g.outputs
      /\ g.node[n].type = "PyOp" /\ Len(g.operands[n]) = 1 /\ ~is_optimizer(g, n)
  BY DEF Plain, NopGood, Bypassed
<1>2. \A m \in M : /\ h.node[m] = g.node[m] /\ Len(h.operands[m]) = Len(g.operands[m])
                   /\ \A i \in 1..Len(g.operands[m]) :
                         h.operands[m][i] = IF g.operands[m][i] = n THEN x ELSE g.operands[m][i]
  BY DEF Bypassed
<1>3. x \in M
  <2>1. x \in ToSet(g.operands[n])
    BY <1>1, SoundOperands
  <2> QED BY <1>1, <2>1, SoundOperands
<1>4. \A m \in M : NopGood(h, m) /\ NameGood(m)
  BY <1>1, <1>2 DEF Plain, NopGood, is_optimizer
<1>5. LoopbackGood(h)
  BY <1>1, <1>2 DEF Plain, LoopbackGood, is_optimizer
<1>6. \E V : Returns(h, V)
  <2>1. PICK V : Returns(g, V)
    BY DEF Plain
  <2>2. n \in V => x \in V
    BY <2>1 DEF Returns
  <2>3. \A m \in M : Len(g.operands[m]) = 1 =>
           h.operands[m][1] = IF g.operands[m][1] = n THEN x ELSE g.operands[m][1]
    <3>1. 1 \in 1..1
      OBVIOUS
    <3> QED BY <1>2, <3>1
  <2>4. \A m \in M : Len(g.operands[m]) = 1 /\ g.operands[m][1] \in V => h.operands[m][1] \in V \ {n}
    BY <1>1, <1>3, <2>2, <2>3
  <2>5. \A o \in ToSet(g.outputs) : /\ o \in M /\ is_forward(h, o) /\ h.node[o].type = "Output"
                                    /\ ~h.node[o].intermediate
                                    /\ Len(h.operands[o]) = 1 /\ h.operands[o][1] \in V \ {n}
    <3> SUFFICES ASSUME NEW o \in ToSet(g.outputs)
                 PROVE  /\ o \in M /\ is_forward(h, o) /\ h.node[o].type = "Output"
                        /\ ~h.node[o].intermediate
                        /\ Len(h.operands[o]) = 1 /\ h.operands[o][1] \in V \ {n}
      OBVIOUS
    <3>1. /\ o \in N /\ is_forward(g, o) /\ g.node[o].type = "Output" /\ ~g.node[o].intermediate
          /\ Len(g.operands[o]) = 1 /\ g.operands[o][1] \in V
      BY <2>1 DEF Returns
    <3>2. o \in M
      BY <1>1, <3>1
    <3> QED BY <1>2, <2>4, <3>1, <3>2 DEF is_forward
  <2>6. \A m \in V \ {n} : /\ m \in M /\ is_forward(h, m) /\ h.node[m].type = "PyOp"
                           /\ h.node[m].kind = "nop" => h.operands[m][1] \in V \ {n}
    <3> SUFFICES ASSUME NEW m \in V \ {n}
                 PROVE  /\ m \in M /\ is_forward(h, m) /\ h.node[m].type = "PyOp"
                        /\ h.node[m].kind = "nop" => h.operands[m][1] \in V \ {n}
      OBVIOUS
    <3>1. /\ m \in N /\ is_forward(g, m) /\ g.node[m].type = "PyOp"
          /\ g.node[m].kind = "nop" => g.operands[m][1] \in V
      BY <2>1 DEF Returns
    <3>2. m \in M
      BY <1>1, <3>1
    <3>3. g.node[m].kind = "nop" => Len(g.operands[m]) = 1
      BY <3>1 DEF Plain, NopGood
    <3> QED BY <1>2, <2>4, <3>1, <3>2, <3>3 DEF is_forward
  <2>7. Returns(h, V \ {n})
    BY <1>1, <2>5, <2>6 DEF Returns
  <2> QED BY <2>7
<1>7. \A m \in ToSet(h.inputs) : m \in M => InputGood(h, m)
  <2>1. h.inputs = g.inputs
    BY DEF Bypassed
  <2> QED BY <1>1, <1>2, <2>1 DEF Plain, InputGood, is_forward, is_backward
<1> QED BY <1>1, <1>4, <1>5, <1>6, <1>7 DEF Plain

(* When a nop is bypassed backward still reads no forward op, and every    *)
(* clone still has a user: what a bypassed clone read, its users read      *)
(* now.                                                                    *)
LEMMA BypassedRecomputed ==
  ASSUME NEW g, Plain(g), Recomputed(g), NEW h, NEW n \in ToSet(g.nodes), g.node[n].kind = "nop", Bypassed(g, h, n)
  PROVE  /\ Recomputed(h)
         /\ (\A c \in ToSet(g.nodes) : IsClone(c) => Used(g, c)) => \A c \in ToSet(h.nodes) : IsClone(c) => Used(h, c)
<1> DEFINE N == ToSet(g.nodes)
           M == ToSet(h.nodes)
           x == g.operands[n][1]
<1>1. /\ Sound(g) /\ Sound(h) /\ M = N \ {n} /\ \A m \in M : h.node[m] = g.node[m]
      /\ g.node[n].type = "PyOp" /\ Len(g.operands[n]) = 1 /\ ~is_optimizer(g, n)
  BY DEF Plain, NopGood, Bypassed
<1>2. \A m \in M : ToSet(h.operands[m]) \subseteq M
  BY <1>1, SoundOperands
<1>3. x \in ToSet(g.operands[n]) /\ x # n
  <2>1. x \in ToSet(g.operands[n])
    BY <1>1, SoundOperands
  <2> QED BY <1>1, <2>1, SoundOperands
<1>4. /\ \A m \in N : ReadsNoForward(g, m) /\ NopReadsNoClone(g, m) /\ (IsClone(m) => is_backward(g, m))
  BY DEF Recomputed
<1>5. is_forward(g, n) \/ is_backward(g, n)
  <2>1. g.node[n] \in NodeRecords
    BY <1>1, SoundIs
  <2>2. g.node[n].epoch \in Epochs
    BY <2>1 DEF NodeRecords
  <2> QED BY <1>1, <2>2 DEF Epochs, is_forward, is_backward, is_optimizer
<1>6. ASSUME NEW m \in M PROVE ReadsNoForward(h, m)
  <2> SUFFICES ASSUME is_backward(g, m), NEW y \in ToSet(h.operands[m])
               PROVE  ~(is_forward(g, y) /\ g.node[y].type = "PyOp")
    BY <1>1, <1>2 DEF ReadsNoForward, is_forward, is_backward
  <2>1. m \in N
    BY <1>1
  <2>2. CASE y \in ToSet(g.operands[m])
    BY <1>4, <2>1, <2>2 DEF ReadsNoForward
  <2>3. CASE n \in ToSet(g.operands[m]) /\ y = x
    <3>1. ~is_forward(g, n)
      BY <1>1, <1>4, <2>1, <2>3 DEF ReadsNoForward
    <3> QED BY <1>3, <1>4, <1>5, <2>3, <3>1 DEF ReadsNoForward
  <2> QED BY <1>1, <2>2, <2>3, BypassedReads
<1>7. ASSUME NEW m \in M PROVE NopReadsNoClone(h, m)
  <2> SUFFICES ASSUME g.node[m].kind = "nop", ~IsClone(m), NEW y \in ToSet(h.operands[m])
               PROVE  ~IsClone(y)
    BY <1>1 DEF NopReadsNoClone
  <2>1. m \in N
    BY <1>1
  <2>2. CASE y \in ToSet(g.operands[m])
    BY <1>4, <2>1, <2>2 DEF NopReadsNoClone
  <2>3. CASE n \in ToSet(g.operands[m]) /\ y = x
    <3>1. ~IsClone(n)
      BY <1>4, <2>1, <2>3 DEF NopReadsNoClone
    <3> QED BY <1>3, <1>4, <2>3, <3>1 DEF NopReadsNoClone
  <2> QED BY <1>1, <2>2, <2>3, BypassedReads
<1>8. Recomputed(h)
  BY <1>1, <1>4, <1>6, <1>7 DEF Recomputed, is_backward
<1>9. ASSUME \A c \in N : IsClone(c) => Used(g, c), NEW c \in M, IsClone(c) PROVE Used(h, c)
  <2>1. c \in N /\ c # n
    BY <1>1
  <2>2. PICK u \in N : c \in ToSet(g.operands[u])
    BY <1>9, <2>1 DEF Used
  <2>3. CASE u # n
    <3>1. u \in M
      BY <1>1, <2>3
    <3>2. c \in ToSet(h.operands[u])
      BY <1>1, <2>1, <2>2, <3>1, BypassedReads
    <3> QED BY <3>1, <3>2 DEF Used
  <2>4. CASE u = n
    <3>1. IsClone(n)
      BY <1>4, <1>9, <2>2, <2>4 DEF NopReadsNoClone
    <3>2. PICK w \in N : n \in ToSet(g.operands[w])
      BY <1>9, <3>1 DEF Used
    <3>3. w # n
      BY <1>1, <3>2, SoundOperands
    <3>4. w \in M
      BY <1>1, <3>3
    <3>5. x \in ToSet(h.operands[w])
      BY <1>1, <3>2, <3>4, BypassedReads
    <3>6. c = x
      <4> DEFINE s == g.operands[n]
      <4>1. s \in Seq(N) /\ Len(s) = 1 /\ c \in ToSet(s)
        BY <1>1, <2>2, <2>4, SoundOperands
      <4> HIDE DEF s, N
      <4>2. ToSet(s) = {s[i] : i \in 1..Len(s)}
        BY <4>1, SeqElements
      <4>3. c = s[1]
        BY <4>1, <4>2
      <4> QED BY <4>3 DEF s
    <3> QED BY <3>4, <3>5, <3>6 DEF Used
  <2> QED BY <2>3, <2>4
<1> QED BY <1>8, <1>9

(* The graph when the nodes of s are bypassed one after the other.         *)
BypassAll(base, s) == FoldLeft(LAMBDA g, n : bypass_node(g, n), base, s)

(* The loop over the nops is a fold.                                       *)
LEMMA BypassFold ==
  ASSUME NEW E, NEW s \in Seq(E), NEW base, NEW X, NEW T, \A A \in SUBSET (1..Len(s)) : T[A] \subseteq X,
         FoldHyp(Len(s), T, base, [i \in 1..Len(s) |-> [t \in X |-> bypass_node(t, s[i])]])
  PROVE  BypassAll(base, s) \in T[1..Len(s)]
<1> DEFINE n == Len(s)
           step == [i \in 1..n |-> [t \in X |-> bypass_node(t, s[i])]]
           Eq(f) == f = [A \in SUBSET (DOMAIN s) |->
                           IF A = {} THEN base ELSE bypass_node(f[A \ {Max(A)}], s[Max(A)])]
           g == CHOOSE f : Eq(f)
<1>1. n \in Nat /\ DOMAIN s = 1..n
  OBVIOUS
<1>2. BypassAll(base, s) = g[DOMAIN s]
  BY DEF BypassAll, FoldLeft, MapThenFoldSet
<1>3. FoldHyp(n, T, base, step)
  OBVIOUS
<1>4. PICK f : FoldFun(n, base, step, f) /\ \A A \in SUBSET (1..n) : f[A] \in T[A]
  <2> HIDE DEF n, step
  <2> QED BY <1>1, <1>3, FoldExists
<1>5. ASSUME NEW A \in SUBSET (1..n), A # {}, NEW t \in X
      PROVE  step[Max(A)][t] = bypass_node(t, s[Max(A)])
  <2>1. Max(A) \in 1..n
    <3> HIDE DEF n
    <3> QED BY <1>1, <1>5, MaxOf
  <2> QED BY <2>1
<1>6. ASSUME NEW A \in SUBSET (1..n), A # {}
      PROVE  step[Max(A)][f[A \ {Max(A)}]] = bypass_node(f[A \ {Max(A)}], s[Max(A)])
  <2>1. f[A \ {Max(A)}] \in X
    <3> HIDE DEF n
    <3> QED BY <1>4 DEF n
  <2> HIDE DEF step, n
  <2> QED BY <1>5, <1>6, <2>1
<1>7. Eq(f)
  <2> HIDE DEF step, n
  <2> QED BY <1>1, <1>4, <1>6 DEF FoldFun
<1>8. Eq(g)
  <2> HIDE DEF Eq
  <2> QED BY <1>7
<1>9. \A A \in SUBSET (1..n) :
         g[A] = IF A = {} THEN base ELSE bypass_node(g[A \ {Max(A)}], s[Max(A)])
  <2> HIDE DEF g, n
  <2> QED BY <1>1, <1>8
<1>10. g[{}] = base /\ StepSame(n, X, step, g)
  <2>1. g[{}] = base
    <3> HIDE DEF g, n
    <3> QED BY <1>9
  <2> HIDE DEF g, n, step
  <2> QED BY <1>5, <1>9, <2>1 DEF StepSame
<1>11. g[1..n] \in T[1..n]
  <2>1. \A A \in SUBSET (1..n) : T[A] \subseteq X
    OBVIOUS
  <2> HIDE DEF g, n, step
  <2> QED BY <1>1, <1>3, <1>10, <2>1, FoldReaches
<1> QED BY <1>1, <1>2, <1>11

(* Of the nops of s those are left whose positions are not in A.           *)
NopsLeft(s, A) ==
  {h \in AllGraphs : /\ Finished(h)
                     /\ \A j \in (1..Len(s)) \ A : s[j] \in ToSet(h.nodes) /\ h.node[s[j]].kind = "nop"}

(* One nop less.                                                           *)
LEMMA BypassStep ==
  ASSUME NEW E, NEW s \in Seq(E), \A i, j \in 1..Len(s) : s[i] = s[j] => i = j,
         NEW A \in SUBSET (1..Len(s)), NEW k \in A, NEW g \in NopsLeft(s, A \ {k})
  PROVE  bypass_node(g, s[k]) \in NopsLeft(s, A)
<1> DEFINE n == s[k]
           h == bypass_node(g, n)
<1>1. /\ Finished(g) /\ Plain(g) /\ Sound(g)
      /\ \A j \in (1..Len(s)) \ (A \ {k}) : s[j] \in ToSet(g.nodes) /\ g.node[s[j]].kind = "nop"
  BY DEF NopsLeft, Finished, Plain
<1>2. k \in 1..Len(s) /\ k \in (1..Len(s)) \ (A \ {k})
  OBVIOUS
<1>3. n \in ToSet(g.nodes) /\ g.node[n].kind = "nop"
  BY <1>1, <1>2
<1> HIDE DEF h, n
<1>4. Len(g.operands[n]) = 1
  BY <1>1, <1>3 DEF Plain, NopGood
<1>5. Bypassed(g, h, n)
  BY <1>1, <1>3, <1>4, BypassNode DEF h
<1>6. Plain(h)
  BY <1>1, <1>3, <1>5, BypassedPlain
<1>7. config.recompute => Recomputed(h) /\ \A c \in ToSet(h.nodes) : IsClone(c) => Used(h, c)
  <2> SUFFICES ASSUME config.recompute
               PROVE  Recomputed(h) /\ \A c \in ToSet(h.nodes) : IsClone(c) => Used(h, c)
    OBVIOUS
  <2>1. Recomputed(g) /\ \A c \in ToSet(g.nodes) : IsClone(c) => Used(g, c)
    BY <1>1 DEF Finished
  <2> QED BY <1>1, <1>3, <1>5, <2>1, BypassedRecomputed
<1>8. h \in AllGraphs /\ Finished(h)
  BY <1>5, <1>6, <1>7 DEF Finished, Bypassed, Sound
<1>9. ASSUME NEW j \in (1..Len(s)) \ A PROVE s[j] \in ToSet(h.nodes) /\ h.node[s[j]].kind = "nop"
  <2>1. j \in (1..Len(s)) \ (A \ {k}) /\ j # k
    OBVIOUS
  <2>2. s[j] # n
    BY <1>2, <2>1 DEF n
  <2> QED BY <1>1, <1>5, <2>1, <2>2 DEF Bypassed
<1>10. h \in NopsLeft(s, A)
  BY <1>8, <1>9 DEF NopsLeft
<1> QED BY <1>10 DEF h, n

(* All nops are bypassed.                                                  *)
LEMMA BypassAllIs ==
  ASSUME NEW g, Finished(g), NEW s \in Seq(ToSet(g.nodes)), \A i, j \in 1..Len(s) : s[i] = s[j] => i = j,
         \A i \in 1..Len(s) : g.node[s[i]].kind = "nop"
  PROVE  Finished(BypassAll(g, s))
<1> DEFINE L == Len(s)
           X == AllGraphs
           T == [A \in SUBSET (1..L) |-> NopsLeft(s, A)]
           step == [i \in 1..L |-> [t \in X |-> bypass_node(t, s[i])]]
<1>1. L \in Nat /\ \A i \in 1..L : s[i] \in ToSet(g.nodes)
  OBVIOUS
<1>2. \A A \in SUBSET (1..L) : T[A] = NopsLeft(s, A) /\ A \ {Max(A)} \in SUBSET (1..L)
  OBVIOUS
<1>3. \A A \in SUBSET (1..L) : T[A] \subseteq X
  BY DEF NopsLeft
<1>4. {} \in SUBSET (1..L) /\ 1..L \in SUBSET (1..L)
  OBVIOUS
<1>5. g \in T[{}]
  <2>1. g \in AllGraphs
    BY DEF Finished, Plain, Sound
  <2> HIDE DEF L, T
  <2>2. g \in NopsLeft(s, {})
    BY <1>1, <2>1 DEF NopsLeft, L
  <2> QED BY <1>2, <1>4, <2>2
<1>6. ASSUME NEW A \in SUBSET (1..L), A # {}, NEW t \in T[A \ {Max(A)}]
      PROVE  step[Max(A)][t] \in T[A]
  <2>1. Max(A) \in A /\ Max(A) \in 1..L
    <3> HIDE DEF L
    <3> QED BY <1>1, <1>6, MaxOf
  <2> DEFINE k == Max(A)
  <2>2. t \in NopsLeft(s, A \ {k}) /\ t \in X
    <3> HIDE DEF T, L
    <3> QED BY <1>2, <1>3, <1>6
  <2> HIDE DEF k
  <2>3. bypass_node(t, s[k]) \in NopsLeft(s, A)
    BY <2>1, <2>2, BypassStep DEF k
  <2>4. step[k][t] = bypass_node(t, s[k])
    BY <2>1, <2>2 DEF k
  <2> HIDE DEF T, step, L
  <2> QED BY <1>2, <2>3, <2>4 DEF k
<1>7. FoldHyp(L, T, g, step)
  <2> HIDE DEF T, step, L
  <2> QED BY <1>5, <1>6 DEF FoldHyp
<1>8. BypassAll(g, s) \in T[1..L]
  <2>1. FoldHyp(Len(s), T, g, [i \in 1..Len(s) |-> [t \in X |-> bypass_node(t, s[i])]])
    BY <1>7
  <2>2. \A A \in SUBSET (1..Len(s)) : T[A] \subseteq X
    BY <1>3
  <2> HIDE DEF T, X, step
  <2> QED BY <2>1, <2>2, BypassFold
<1>9. BypassAll(g, s) \in NopsLeft(s, 1..L)
  <2> HIDE DEF T, L
  <2> QED BY <1>2, <1>4, <1>8
<1> QED BY <1>9 DEF NopsLeft

(* remove_nops keeps the invariant.                                        *)
LEMMA RemoveNopsInv ==
  ASSUME GraphInv, remove_nops
  PROVE  GraphInv'
<1> DEFINE S == {n \in DOMAIN graph.node : graph.node[n].kind = "nop"}
           t == Only(topological_sort(graph), S)
<1>1. /\ stage = "remove_nops" /\ stage' = "split_graph" /\ config' = config
      /\ fwd_to_recompute' = fwd_to_recompute
  BY DEF remove_nops
<1>2. graph' = BypassAll(graph, t)
  BY DEF remove_nops, BypassAll, FoldLeft, MapThenFoldSet
<1>3. Finished(graph) /\ Sound(graph)
  BY <1>1 DEF GraphInv, RecomputedInv, Finished, Finishing, Plain
<1>4. DOMAIN graph.node = ToSet(graph.nodes)
  BY <1>3, SoundIs
<1>5. \A n \in S : graph.node[n].kind = "nop"
  OBVIOUS
<1> HIDE DEF S
<1>6. /\ t \in Seq(ToSet(graph.nodes)) /\ ToSet(t) = ToSet(graph.nodes) \cap S
      /\ \A i, j \in 1..Len(t) : t[i] = t[j] => i = j
  BY <1>3, SortedOnly
<1> HIDE DEF t
<1>7. \A i \in 1..Len(t) : graph.node[t[i]].kind = "nop"
  <2>1. \A i \in 1..Len(t) : t[i] \in ToSet(t)
    BY <1>6, SeqElements
  <2> QED BY <1>5, <1>6, <2>1
<1>8. Finished(graph')
  BY <1>2, <1>3, <1>6, <1>7, BypassAllIs
<1>9. /\ config \in [optimizer : Optimizers, recompute : BOOLEAN]
      /\ config.recompute => \A n \in DOMAIN fwd_to_recompute : IsClone(fwd_to_recompute[n])
  BY <1>1 DEF GraphInv, RecomputedInv, Finishing
<1>10. RecomputedInv'
  BY <1>1, <1>8, <1>9 DEF RecomputedInv, Finished
<1>11. Plain(graph')
  BY <1>8 DEF Finished
<1> QED BY <1>1, <1>9, <1>10, <1>11
        DEF GraphInv, AddingInv, CloningInv, RemovingInv, Adding, Recomputing, Finishing

(* split_graph keeps the invariant.                                        *)
LEMMA SplitGraphInv ==
  ASSUME GraphInv, split_graph
  PROVE  GraphInv'
<1>1. /\ stage = "split_graph" /\ stage' = "done" /\ config' = config /\ graph' = graph
      /\ fwd_to_recompute' = fwd_to_recompute
  BY DEF split_graph
<1>2. /\ module'.Forward = extract_forward_graph(graph')
      /\ module'.Backward = extract_backward_graph(graph', module'.Forward)
  <2> DEFINE f == extract_forward_graph(graph)
             b == extract_backward_graph(graph, f)
             o == IF \E n \in DOMAIN graph.node : is_optimizer(graph, n)
                  THEN extract_optimizer_graph(graph) ELSE EmptyGraph
  <2>1. module' = [Forward |-> f, Backward |-> b, Optimizer |-> o]
    BY DEF split_graph
  <2> HIDE DEF f, b, o
  <2>2. module'.Forward = f /\ module'.Backward = b
    BY <2>1
  <2> QED BY <1>1, <2>2 DEF f, b
<1> QED BY <1>1, <1>2
        DEF GraphInv, AddingInv, CloningInv, RemovingInv, RecomputedInv, Adding, Recomputing, Finishing, Plain

(* A stuttering step keeps the invariant.                                  *)
LEMMA UnchangedInv ==
  ASSUME GraphInv, UNCHANGED vars
  PROVE  GraphInv'
BY DEF vars, GraphInv, AddingInv, CloningInv, RemovingInv, RecomputedInv, Plain

(* Every step keeps the invariant.                                         *)
LEMMA GraphInvStep ==
  ASSUME GraphInv, [Next]_vars
  PROVE  GraphInv'
<1>1. CASE propagate_requires_grad
  BY <1>1, PropagateInv
<1>2. CASE create_gradient_input
  BY <1>2, GradientInputInv
<1>3. CASE gradient_inputs_created
  BY <1>3, GradientInputsCreatedInv
<1>4. CASE SkipNode
  BY <1>4, SkipNodeInv
<1>5. CASE AccumulateGradient
  BY <1>5, AccumulateGradientInv
<1>6. CASE OutputGradient
  BY <1>6, OutputGradientInv
<1>7. CASE Differentiate
  BY <1>7, DifferentiateInv
<1>8. CASE backward_graph_created
  BY <1>8, BackwardGraphCreatedInv
<1>9. CASE create_optimizer_graph
  BY <1>9, OptimizerGraphInv
<1>10. CASE optimizer_graph_created
  BY <1>10, OptimizerGraphCreatedInv
<1>11. CASE create_recompute_op
  BY <1>11, RecomputeOpInv
<1>12. CASE add_edges_for_recompute_ops
  BY <1>12, EdgesForRecomputeOpsInv
<1>13. CASE remove_recompute_op
  BY <1>13, RemoveRecomputeOpInv
<1>14. CASE recompute_ops_removed
  BY <1>14, RecomputeOpsRemovedInv
<1>15. CASE remove_nops
  BY <1>15, RemoveNopsInv
<1>16. CASE split_graph
  BY <1>16, SplitGraphInv
<1>17. CASE compiled \/ UNCHANGED vars
  BY <1>17, UnchangedInv DEF compiled
<1> QED BY <1>1, <1>2, <1>3, <1>4, <1>5, <1>6, <1>7, <1>8, <1>9, <1>10, <1>11, <1>12, <1>13, <1>14,
           <1>15, <1>16, <1>17 DEF Next

(* GraphInv holds of every state of the compilation.                       *)
THEOREM GraphInvariant == Spec => []GraphInv
<1>1. Init => GraphInv
  BY GraphInvInit
<1>2. GraphInv /\ [Next]_vars => GraphInv'
  BY GraphInvStep
<1> QED BY <1>1, <1>2, PTL DEF Spec

-----------------------------------------------------------------------------
(* What Only keeps of a sequence, and how many.                            *)

(* Induction on sequences, for a set of sequences.                         *)
LEMMA SeqInduction ==
  ASSUME NEW X, NEW P, <<>> \in P,
         \A u \in Seq(X) : \A x \in X : u \in P => Append(u, x) \in P
  PROVE  \A s \in Seq(X) : s \in P
<1> DEFINE G == {k \in Nat : \A s \in Seq(X) : Len(s) = k => s \in P}
<1>1. 0 \in G
  <2>1. \A s \in Seq(X) : Len(s) = 0 => s = <<>>
    BY EmptySeq
  <2> QED BY <2>1
<1>2. ASSUME NEW k \in Nat, k \in G PROVE k + 1 \in G
  <2> SUFFICES ASSUME NEW s \in Seq(X), Len(s) = k + 1 PROVE s \in P
    OBVIOUS
  <2>1. s # <<>>
    BY EmptySeq
  <2>2. PICK u \in Seq(X), x \in X : s = Append(u, x)
    BY <2>1, SequenceEmptyOrAppend
  <2>3. Len(u) = k
    BY <2>2, AppendProperties
  <2> QED BY <1>2, <2>2, <2>3
<1>3. \A k \in Nat : k \in G
  <2> HIDE DEF G
  <2> QED BY <1>1, <1>2, Induction
<1>4. \A s \in Seq(X) : Len(s) \in Nat
  OBVIOUS
<1> QED BY <1>3, <1>4

(* Only keeps nothing of nothing.                                          *)
LEMMA OnlyEmpty ==
  ASSUME NEW S
  PROVE  Only(<<>>, S) = <<>>
<1> DEFINE e == <<>>
<1>1. e \in Seq(Nat) /\ Len(e) = 0
  OBVIOUS
<1> HIDE DEF e
<1>2. PICK g : Kept(g, e, S) /\ Only(e, S) = g[0]
  BY <1>1, OnlyKept
<1>3. Only(e, S) = <<>>
  BY <1>2 DEF Kept
<1> QED BY <1>3 DEF e

(* What Only keeps when there is one element more.                         *)
LEMMA OnlyAppend ==
  ASSUME NEW X, NEW s \in Seq(X), NEW x \in X, NEW S
  PROVE  Only(Append(s, x), S) = IF x \in S THEN Append(Only(s, S), x) ELSE Only(s, S)
<1> DEFINE t == Append(s, x)
           k == Len(s)
<1>1. /\ t \in Seq(X) /\ Len(t) = k + 1 /\ k \in Nat /\ t[k + 1] = x
      /\ \A i \in 1..k : t[i] = s[i]
  BY AppendProperties
<1> HIDE DEF t
<1>2. PICK f : Kept(f, s, S) /\ Only(s, S) = f[k]
  BY OnlyKept
<1>3. PICK h : Kept(h, t, S) /\ Only(t, S) = h[k + 1]
  BY <1>1, OnlyKept
<1> HIDE DEF k
<1>4. \A i \in 0..k : h[i] = f[i]
  <2> DEFINE G == {i \in 0..k : h[i] = f[i]}
  <2>1. 0 \in G
    BY <1>1, <1>2, <1>3 DEF Kept
  <2>2. ASSUME NEW i \in 0..k, i \in G, i < k PROVE i + 1 \in G
    <3>1. i + 1 \in 1..k /\ i + 1 \in 1..(k + 1) /\ (i + 1) - 1 = i /\ i + 1 \in 0..k
      BY <1>1, <2>2
    <3>2. f[i + 1] = IF s[i + 1] \in S THEN Append(f[i], s[i + 1]) ELSE f[i]
      BY <1>2, <3>1 DEF Kept, k
    <3>3. h[i + 1] = IF t[i + 1] \in S THEN Append(h[i], t[i + 1]) ELSE h[i]
      BY <1>1, <1>3, <3>1 DEF Kept
    <3> QED BY <1>1, <2>2, <3>1, <3>2, <3>3
  <2> HIDE DEF G
  <2>3. \A i \in 0..k : i \in G
    BY <1>1, <2>1, <2>2, InductionTo
  <2> QED BY <2>3 DEF G
<1>5. h[k + 1] = IF x \in S THEN Append(h[k], x) ELSE h[k]
  <2>1. k + 1 \in 1..(k + 1) /\ (k + 1) - 1 = k
    BY <1>1
  <2> QED BY <1>1, <1>3, <2>1 DEF Kept
<1>6. h[k] = f[k]
  BY <1>1, <1>4
<1> QED BY <1>2, <1>3, <1>5, <1>6 DEF t

(* The elements of a longer sequence.                                      *)
LEMMA AppendElements ==
  ASSUME NEW X, NEW u \in Seq(X), NEW x \in X
  PROVE  ToSet(<<>>) = {} /\ ToSet(Append(u, x)) = ToSet(u) \cup {x}
<1>1. ToSet(<<>>) = {}
  BY DEF ToSet
<1> QED BY <1>1, SeqAppend

(* Only depends on what the set has of the sequence.                       *)
LEMMA OnlySame ==
  ASSUME NEW X, NEW s \in Seq(X), NEW S, NEW R, \A x \in ToSet(s) : x \in S <=> x \in R
  PROVE  Only(s, S) = Only(s, R)
<1> DEFINE P == {u \in Seq(X) : (\A x \in ToSet(u) : x \in S <=> x \in R) => Only(u, S) = Only(u, R)}
<1>1. ASSUME NEW u \in Seq(X), NEW x \in X, u \in P PROVE Append(u, x) \in P
  <2>1. Append(u, x) \in Seq(X)
    BY AppendProperties
  <2>2. ToSet(Append(u, x)) = ToSet(u) \cup {x}
    BY AppendElements
  <2>3. /\ Only(Append(u, x), S) = IF x \in S THEN Append(Only(u, S), x) ELSE Only(u, S)
        /\ Only(Append(u, x), R) = IF x \in R THEN Append(Only(u, R), x) ELSE Only(u, R)
    BY OnlyAppend
  <2>4. ASSUME \A y \in ToSet(Append(u, x)) : y \in S <=> y \in R
        PROVE  Only(Append(u, x), S) = Only(Append(u, x), R)
    <3>1. \A y \in ToSet(u) : y \in S <=> y \in R
      BY <2>2, <2>4
    <3>2. Only(u, S) = Only(u, R) /\ (x \in S <=> x \in R)
      BY <1>1, <2>2, <2>4, <3>1
    <3> QED BY <2>3, <3>2
  <2> QED BY <2>1, <2>4
<1>2. <<>> \in P
  BY OnlyEmpty
<1> HIDE DEF P
<1>3. \A u \in Seq(X) : u \in P
  BY <1>1, <1>2, SeqInduction
<1> QED BY <1>3 DEF P

(* Only keeps all of a sequence, or nothing.                               *)
LEMMA OnlyAllOrNone ==
  ASSUME NEW X, NEW s \in Seq(X), NEW S
  PROVE  /\ (\A x \in ToSet(s) : x \in S) => Only(s, S) = s
         /\ (\A x \in ToSet(s) : x \notin S) => Only(s, S) = <<>>
<1> DEFINE P == {u \in Seq(X) : (\A x \in ToSet(u) : x \in S) => Only(u, S) = u}
<1>1. ASSUME NEW u \in Seq(X), NEW x \in X, u \in P PROVE Append(u, x) \in P
  <2>1. Append(u, x) \in Seq(X)
    BY AppendProperties
  <2>2. ToSet(Append(u, x)) = ToSet(u) \cup {x}
    BY AppendElements
  <2>3. Only(Append(u, x), S) = IF x \in S THEN Append(Only(u, S), x) ELSE Only(u, S)
    BY OnlyAppend
  <2>4. ASSUME \A y \in ToSet(Append(u, x)) : y \in S
        PROVE  Only(Append(u, x), S) = Append(u, x)
    <3>1. \A y \in ToSet(u) : y \in S
      BY <2>2, <2>4
    <3>2. Only(u, S) = u /\ x \in S
      BY <1>1, <2>2, <2>4, <3>1
    <3> QED BY <2>3, <3>2
  <2> QED BY <2>1, <2>4
<1>2. <<>> \in P
  BY OnlyEmpty
<1> HIDE DEF P
<1>3. \A u \in Seq(X) : u \in P
  BY <1>1, <1>2, SeqInduction
<1>4. (\A x \in ToSet(s) : x \in S) => Only(s, S) = s
  BY <1>3 DEF P
<1>5. ASSUME \A x \in ToSet(s) : x \notin S PROVE Only(s, S) = <<>>
  <2>1. Only(s, S) \in Seq(X) /\ ToSet(Only(s, S)) = ToSet(s) \cap S
    BY OnlyElements
  <2>2. ToSet(Only(s, S)) = {}
    BY <1>5, <2>1
  <2> QED BY <2>1, <2>2, EmptyElements DEF IsEmpty
<1> QED BY <1>4, <1>5

(* Only twice is Only once.                                                *)
LEMMA OnlyTwice ==
  ASSUME NEW X, NEW s \in Seq(X), NEW S, NEW R
  PROVE  Only(Only(s, S), R) = Only(s, S \cap R)
<1> DEFINE P == {u \in Seq(X) : Only(Only(u, S), R) = Only(u, S \cap R)}
<1>1. ASSUME NEW u \in Seq(X), NEW x \in X, u \in P PROVE Append(u, x) \in P
  <2>1. Append(u, x) \in Seq(X)
    BY AppendProperties
  <2>2. /\ Only(Append(u, x), S) = IF x \in S THEN Append(Only(u, S), x) ELSE Only(u, S)
        /\ Only(Append(u, x), S \cap R) = IF x \in S \cap R THEN Append(Only(u, S \cap R), x)
                                          ELSE Only(u, S \cap R)
    BY OnlyAppend
  <2>3. Only(u, S) \in Seq(X)
    BY OnlyElements
  <2>4. Only(Append(Only(u, S), x), R) = IF x \in R THEN Append(Only(Only(u, S), R), x) ELSE Only(Only(u, S), R)
    BY <2>3, OnlyAppend
  <2>5. Only(Only(u, S), R) = Only(u, S \cap R)
    BY <1>1
  <2>6. x \in S \cap R <=> x \in S /\ x \in R
    OBVIOUS
  <2>7. Only(Only(Append(u, x), S), R) = Only(Append(u, x), S \cap R)
    BY <2>2, <2>4, <2>5, <2>6
  <2> QED BY <2>1, <2>7
<1>2. <<>> \in P
  BY OnlyEmpty
<1> HIDE DEF P
<1>3. \A u \in Seq(X) : u \in P
  BY <1>1, <1>2, SeqInduction
<1> QED BY <1>3 DEF P

(* What Only keeps of two sequences, one after the other.                  *)
LEMMA OnlyConcat ==
  ASSUME NEW X, NEW s \in Seq(X), NEW t \in Seq(X), NEW S
  PROVE  Only(s \o t, S) = Only(s, S) \o Only(t, S)
<1> DEFINE P == {u \in Seq(X) : Only(s \o u, S) = Only(s, S) \o Only(u, S)}
<1>1. Only(s, S) \in Seq(X)
  BY OnlyElements
<1>2. ASSUME NEW u \in Seq(X), NEW x \in X, u \in P PROVE Append(u, x) \in P
  <2>1. Append(u, x) \in Seq(X) /\ s \o u \in Seq(X) /\ Only(u, S) \in Seq(X) /\ <<x>> \in Seq(X)
    BY AppendProperties, ConcatProperties, OnlyElements
  <2>2. s \o Append(u, x) = Append(s \o u, x)
    <3>1. s \o (u \o <<x>>) = (s \o u) \o <<x>>
      BY <2>1, ConcatAssociative
    <3>2. Append(u, x) = u \o <<x>> /\ Append(s \o u, x) = (s \o u) \o <<x>>
      BY <2>1, AppendIsConcat
    <3> QED BY <3>1, <3>2
  <2>3. /\ Only(Append(u, x), S) = IF x \in S THEN Append(Only(u, S), x) ELSE Only(u, S)
        /\ Only(Append(s \o u, x), S) = IF x \in S THEN Append(Only(s \o u, S), x) ELSE Only(s \o u, S)
    BY <2>1, OnlyAppend
  <2>4. Only(s, S) \o Append(Only(u, S), x) = Append(Only(s, S) \o Only(u, S), x)
    <3> DEFINE a == Only(s, S)
               b == Only(u, S)
    <3>1. a \in Seq(X) /\ b \in Seq(X)
      BY <1>1, <2>1
    <3> HIDE DEF a, b
    <3>2. a \o b \in Seq(X)
      BY <3>1, ConcatProperties
    <3>3. a \o (b \o <<x>>) = (a \o b) \o <<x>>
      BY <2>1, <3>1, ConcatAssociative
    <3>4. Append(b, x) = b \o <<x>> /\ Append(a \o b, x) = (a \o b) \o <<x>>
      BY <3>1, <3>2, AppendIsConcat
    <3>5. a \o Append(b, x) = Append(a \o b, x)
      BY <3>3, <3>4
    <3> QED BY <3>5 DEF a, b
  <2>5. Only(s \o u, S) = Only(s, S) \o Only(u, S)
    BY <1>2
  <2>6. Only(s \o Append(u, x), S) = Only(s, S) \o Only(Append(u, x), S)
    BY <2>2, <2>3, <2>4, <2>5
  <2> QED BY <2>1, <2>6
<1>3. <<>> \in P
  <2>1. s \o <<>> = s /\ Only(s, S) \o <<>> = Only(s, S) /\ <<>> \in Seq(X)
    BY <1>1, ConcatEmptySeq
  <2> QED BY <2>1, OnlyEmpty
<1> HIDE DEF P
<1>4. \A u \in Seq(X) : u \in P
  BY <1>2, <1>3, SeqInduction
<1> QED BY <1>4 DEF P

(* As many positions are kept as elements.                                 *)
LEMMA OnlyPositions ==
  ASSUME NEW X, NEW s \in Seq(X), NEW S
  PROVE  Len(Only(Indices(s), {i \in DOMAIN s : s[i] \in S})) = Len(Only(s, S))
<1> DEFINE Q(u) == {i \in DOMAIN u : u[i] \in S}
           P == {u \in Seq(X) : Len(Only(Indices(u), Q(u))) = Len(Only(u, S))}
<1>1. ASSUME NEW u \in Seq(X), NEW x \in X, u \in P PROVE Append(u, x) \in P
  <2> DEFINE w == Append(u, x)
             k == Len(u)
  <2>1. /\ w \in Seq(X) /\ Len(w) = k + 1 /\ w[k + 1] = x /\ k \in Nat
        /\ \A i \in 1..k : w[i] = u[i]
        /\ DOMAIN u = 1..k /\ DOMAIN w = 1..(k + 1)
    BY AppendProperties
  <2> HIDE DEF w, k
  <2>2. Indices(u) = [i \in 1..k |-> i] /\ Indices(w) = [i \in 1..(k + 1) |-> i]
    BY <2>1 DEF Indices
  <2> DEFINE I == [i \in 1..k |-> i]
             J == [i \in 1..(k + 1) |-> i]
  <2>3. I \in Seq(Nat) /\ Len(I) = k /\ ToSet(I) = 1..k
    <3>1. I \in Seq(Nat) /\ Len(I) = k /\ DOMAIN I = 1..k /\ \A i \in 1..k : I[i] = i
      BY <2>1
    <3> HIDE DEF I
    <3> QED BY <3>1 DEF ToSet
  <2>4. J = Append(I, k + 1)
    <3>1. J \in Seq(Nat) /\ Len(J) = k + 1 /\ \A i \in 1..(k + 1) : J[i] = i
      BY <2>1
    <3>2. \A i \in 1..k : I[i] = i
      OBVIOUS
    <3> DEFINE A == Append(I, k + 1)
    <3> HIDE DEF I, J
    <3>3. A \in Seq(Nat) /\ Len(A) = k + 1 /\ \A i \in 1..k : A[i] = i
      BY <2>1, <2>3, <3>2, AppendProperties
    <3>4. A[k + 1] = k + 1
      BY <2>1, <2>3, AppendProperties
    <3>5. \A i \in 1..(k + 1) : J[i] = A[i]
      <4> HIDE DEF A
      <4>1. \A i \in 1..(k + 1) : i = k + 1 \/ i \in 1..k
        BY <2>1
      <4> QED BY <3>1, <3>3, <3>4, <4>1
    <3> HIDE DEF A
    <3>6. J = A
      BY <3>1, <3>3, <3>5, SeqEqual
    <3> QED BY <3>6 DEF A
  <2> HIDE DEF I, J
  <2>5. Only(J, Q(w)) = IF k + 1 \in Q(w) THEN Append(Only(I, Q(w)), k + 1) ELSE Only(I, Q(w))
    <3> DEFINE l == k + 1
               R == Q(w)
    <3>1. l \in Nat /\ J = Append(I, l)
      BY <2>1, <2>4
    <3> HIDE DEF l, R, Q
    <3>2. Only(J, R) = IF l \in R THEN Append(Only(I, R), l) ELSE Only(I, R)
      BY <2>3, <3>1, OnlyAppend
    <3> QED BY <3>2 DEF l, R
  <2>6. Only(I, Q(w)) = Only(I, Q(u))
    <3>1. \A i \in ToSet(I) : i \in Q(w) <=> i \in Q(u)
      BY <2>1, <2>3
    <3> HIDE DEF Q
    <3> QED BY <2>3, <3>1, OnlySame
  <2>7. k + 1 \in Q(w) <=> x \in S
    BY <2>1
  <2>8. Only(w, S) = IF x \in S THEN Append(Only(u, S), x) ELSE Only(u, S)
    BY OnlyAppend DEF w
  <2>9. Len(Only(I, Q(u))) = Len(Only(u, S))
    BY <1>1, <2>2 DEF I
  <2>10. Only(I, Q(u)) \in Seq(Nat) /\ Only(u, S) \in Seq(X)
    BY <2>3, OnlyElements
  <2>11. Len(Only(J, Q(w))) = Len(Only(w, S))
    <3> HIDE DEF Q
    <3>1. CASE x \in S
      <4>1. Len(Append(Only(I, Q(u)), k + 1)) = Len(Only(I, Q(u))) + 1
        BY <2>1, <2>10, AppendProperties
      <4>2. Len(Append(Only(u, S), x)) = Len(Only(u, S)) + 1
        BY <2>10, AppendProperties
      <4> QED BY <2>5, <2>6, <2>7, <2>8, <2>9, <3>1, <4>1, <4>2
    <3>2. CASE x \notin S
      BY <2>5, <2>6, <2>7, <2>8, <2>9, <3>2
    <3> QED BY <3>1, <3>2
  <2>12. Len(Only(Indices(w), Q(w))) = Len(Only(w, S))
    BY <2>2, <2>11 DEF J
  <2> QED BY <2>1, <2>12 DEF w
<1>2. <<>> \in P
  <2>1. Indices(<<>>) = <<>>
    BY DEF Indices
  <2> QED BY <2>1, OnlyEmpty
<1> HIDE DEF P
<1>3. \A u \in Seq(X) : u \in P
  BY <1>1, <1>2, SeqInduction
<1> QED BY <1>3 DEF P

-----------------------------------------------------------------------------
(* Splitting: the forward graph.                                           *)

(* The nodes of s are cloned into a graph; the intermediate outputs of s.  *)
CloneAll(g, base, s) == FoldLeft(LAMBDA new, n : clone_and_add(g, n, new), base, s)
IntermediateOutput == [Node("Output", "none", "Forward") EXCEPT !.intermediate = TRUE]
AddIntermediates(base, s) ==
  FoldLeft(LAMBDA new, n : add_node(new, Intermediate(n), IntermediateOutput, <<n>>), base, s)

(* The loop over the forward nodes is a fold.                              *)
LEMMA CloneAllFold ==
  ASSUME NEW h, NEW E, NEW s \in Seq(E), NEW base, NEW X, NEW T, \A A \in SUBSET (1..Len(s)) : T[A] \subseteq X,
         FoldHyp(Len(s), T, base, [i \in 1..Len(s) |-> [t \in X |-> clone_and_add(h, s[i], t)]])
  PROVE  CloneAll(h, base, s) \in T[1..Len(s)]
<1> DEFINE n == Len(s)
           step == [i \in 1..n |-> [t \in X |-> clone_and_add(h, s[i], t)]]
           Eq(f) == f = [A \in SUBSET (DOMAIN s) |->
                           IF A = {} THEN base ELSE clone_and_add(h, s[Max(A)], f[A \ {Max(A)}])]
           g == CHOOSE f : Eq(f)
<1>1. n \in Nat /\ DOMAIN s = 1..n
  OBVIOUS
<1>2. CloneAll(h, base, s) = g[DOMAIN s]
  BY DEF CloneAll, FoldLeft, MapThenFoldSet
<1>3. FoldHyp(n, T, base, step)
  OBVIOUS
<1>4. PICK f : FoldFun(n, base, step, f) /\ \A A \in SUBSET (1..n) : f[A] \in T[A]
  <2> HIDE DEF n, step
  <2> QED BY <1>1, <1>3, FoldExists
<1>5. ASSUME NEW A \in SUBSET (1..n), A # {}, NEW t \in X
      PROVE  step[Max(A)][t] = clone_and_add(h, s[Max(A)], t)
  <2>1. Max(A) \in 1..n
    <3> HIDE DEF n
    <3> QED BY <1>1, <1>5, MaxOf
  <2> QED BY <2>1
<1>6. ASSUME NEW A \in SUBSET (1..n), A # {}
      PROVE  step[Max(A)][f[A \ {Max(A)}]] = clone_and_add(h, s[Max(A)], f[A \ {Max(A)}])
  <2>1. f[A \ {Max(A)}] \in X
    <3> HIDE DEF n
    <3> QED BY <1>4 DEF n
  <2> HIDE DEF step, n
  <2> QED BY <1>5, <1>6, <2>1
<1>7. Eq(f)
  <2> HIDE DEF step, n
  <2> QED BY <1>1, <1>4, <1>6 DEF FoldFun
<1>8. Eq(g)
  <2> HIDE DEF Eq
  <2> QED BY <1>7
<1>9. \A A \in SUBSET (1..n) :
         g[A] = IF A = {} THEN base ELSE clone_and_add(h, s[Max(A)], g[A \ {Max(A)}])
  <2> HIDE DEF g, n
  <2> QED BY <1>1, <1>8
<1>10. g[{}] = base /\ StepSame(n, X, step, g)
  <2>1. g[{}] = base
    <3> HIDE DEF g, n
    <3> QED BY <1>9
  <2> HIDE DEF g, n, step
  <2> QED BY <1>5, <1>9, <2>1 DEF StepSame
<1>11. g[1..n] \in T[1..n]
  <2>1. \A A \in SUBSET (1..n) : T[A] \subseteq X
    OBVIOUS
  <2> HIDE DEF g, n, step
  <2> QED BY <1>1, <1>3, <1>10, <2>1, FoldReaches
<1> QED BY <1>1, <1>2, <1>11

(* The loop over the ops whose results cross to backward is a fold.        *)
LEMMA IntermediatesFold ==
  ASSUME NEW E, NEW s \in Seq(E), NEW base, NEW X, NEW T, \A A \in SUBSET (1..Len(s)) : T[A] \subseteq X,
         FoldHyp(Len(s), T, base,
                 [i \in 1..Len(s) |-> [t \in X |-> add_node(t, Intermediate(s[i]), IntermediateOutput, <<s[i]>>)]])
  PROVE  AddIntermediates(base, s) \in T[1..Len(s)]
<1> DEFINE n == Len(s)
           step == [i \in 1..n |-> [t \in X |-> add_node(t, Intermediate(s[i]), IntermediateOutput, <<s[i]>>)]]
           Eq(f) == f = [A \in SUBSET (DOMAIN s) |->
                           IF A = {} THEN base
                           ELSE add_node(f[A \ {Max(A)}], Intermediate(s[Max(A)]), IntermediateOutput, <<s[Max(A)]>>)]
           g == CHOOSE f : Eq(f)
<1>1. n \in Nat /\ DOMAIN s = 1..n
  OBVIOUS
<1>2. AddIntermediates(base, s) = g[DOMAIN s]
  BY DEF AddIntermediates, FoldLeft, MapThenFoldSet
<1>3. FoldHyp(n, T, base, step)
  OBVIOUS
<1>4. PICK f : FoldFun(n, base, step, f) /\ \A A \in SUBSET (1..n) : f[A] \in T[A]
  <2> HIDE DEF n, step
  <2> QED BY <1>1, <1>3, FoldExists
<1>5. ASSUME NEW A \in SUBSET (1..n), A # {}, NEW t \in X
      PROVE  step[Max(A)][t] = add_node(t, Intermediate(s[Max(A)]), IntermediateOutput, <<s[Max(A)]>>)
  <2>1. Max(A) \in 1..n
    <3> HIDE DEF n
    <3> QED BY <1>1, <1>5, MaxOf
  <2> QED BY <2>1
<1>6. ASSUME NEW A \in SUBSET (1..n), A # {}
      PROVE  step[Max(A)][f[A \ {Max(A)}]] =
                add_node(f[A \ {Max(A)}], Intermediate(s[Max(A)]), IntermediateOutput, <<s[Max(A)]>>)
  <2>1. f[A \ {Max(A)}] \in X
    <3> HIDE DEF n
    <3> QED BY <1>4 DEF n
  <2> HIDE DEF step, n
  <2> QED BY <1>5, <1>6, <2>1
<1>7. Eq(f)
  <2> HIDE DEF step, n
  <2> QED BY <1>1, <1>4, <1>6 DEF FoldFun
<1>8. Eq(g)
  <2> HIDE DEF Eq
  <2> QED BY <1>7
<1>9. \A A \in SUBSET (1..n) :
         g[A] = IF A = {} THEN base
                ELSE add_node(g[A \ {Max(A)}], Intermediate(s[Max(A)]), IntermediateOutput, <<s[Max(A)]>>)
  <2> HIDE DEF g, n
  <2> QED BY <1>1, <1>8
<1>10. g[{}] = base /\ StepSame(n, X, step, g)
  <2>1. g[{}] = base
    <3> HIDE DEF g, n
    <3> QED BY <1>9
  <2> HIDE DEF g, n, step
  <2> QED BY <1>5, <1>9, <2>1 DEF StepSame
<1>11. g[1..n] \in T[1..n]
  <2>1. \A A \in SUBSET (1..n) : T[A] \subseteq X
    OBVIOUS
  <2> HIDE DEF g, n, step
  <2> QED BY <1>1, <1>3, <1>10, <2>1, FoldReaches
<1> QED BY <1>1, <1>2, <1>11

(* When no result crosses, nothing is added.                               *)
LEMMA NoIntermediates ==
  ASSUME NEW base
  PROVE  AddIntermediates(base, <<>>) = base
<1> DEFINE s == <<>>
           X == {base}
           T == [A \in SUBSET (1..Len(s)) |-> X]
           step == [i \in 1..Len(s) |-> [t \in X |-> add_node(t, Intermediate(s[i]), IntermediateOutput, <<s[i]>>)]]
<1>1. s \in Seq({}) /\ Len(s) = 0
  OBVIOUS
<1>2. \A i \in 1..Len(s) : FALSE
  OBVIOUS
<1>3. \A A \in SUBSET (1..Len(s)) : A = {}
  BY <1>2
<1>4. {} \in SUBSET (1..Len(s)) /\ 1..Len(s) \in SUBSET (1..Len(s))
  OBVIOUS
<1>5. \A A \in SUBSET (1..Len(s)) : T[A] = {base}
  OBVIOUS
<1>6. FoldHyp(Len(s), T, base, step)
  <2> HIDE DEF s, T, step, X
  <2> QED BY <1>3, <1>4, <1>5 DEF FoldHyp
<1>7. AddIntermediates(base, s) \in T[1..Len(s)]
  <2>1. FoldHyp(Len(s), T, base,
                [i \in 1..Len(s) |-> [t \in X |-> add_node(t, Intermediate(s[i]), IntermediateOutput, <<s[i]>>)]])
    BY <1>6
  <2>2. \A A \in SUBSET (1..Len(s)) : T[A] \subseteq X
    OBVIOUS
  <2> HIDE DEF s, T, X, step
  <2> QED BY <1>1, <2>1, <2>2, IntermediatesFold
<1>8. AddIntermediates(base, s) = base
  <2> HIDE DEF s, T
  <2> QED BY <1>4, <1>5, <1>7
<1> QED BY <1>8

(* The empty graph is sound.                                               *)
LEMMA EmptyGraphIsSound == Sound(EmptyGraph) /\ ToSet(EmptyGraph.nodes) = {}
<1> DEFINE E == <<>>
           None == {}
<1>1. ToSet(E) = None /\ E \in Seq(Names)
  BY DEF ToSet
<1>2. E \in [None -> NodeRecords] /\ E \in [None -> Seq(None)]
  OBVIOUS
<1>3. EmptyGraph = [nodes |-> E, node |-> E, operands |-> E, loopback |-> None, inputs |-> E, outputs |-> E]
  BY DEF EmptyGraph
<1>4. None \in SUBSET (Names \X Names) /\ \A n \in None : FALSE
  OBVIOUS
<1> HIDE DEF E, None
<1>5. Parts(EmptyGraph, E, E, E, None, E, E)
  BY <1>1, <1>2, <1>3, <1>4 DEF Parts
<1>6. Sound(EmptyGraph) /\ EmptyGraph.nodes = E
  BY <1>5, PartsSound
<1> QED BY <1>1, <1>6 DEF None

(* A part of graph g: nodes of g as they are there.                        *)
SameOperands(g, h) == \A x \in ToSet(h.nodes) : h.operands[x] = g.operands[x]
PartOf(g, h) == Sound(h) /\ \A n \in ToSet(h.nodes) : n \in ToSet(g.nodes) /\ h.node[n] = g.node[n]

(* The node is added, and if all it reads is there, it reads the same.     *)
Cloned(g, n, h, new) ==
  /\ PartOf(g, new) /\ ToSet(new.nodes) = ToSet(h.nodes) \cup {n}
  /\ (SameOperands(g, h) /\ ToSet(g.operands[n]) \subseteq ToSet(h.nodes)) => SameOperands(g, new)

(* clone_and_add adds a node of g to a part of g.                          *)
LEMMA CloneAndAdd ==
  ASSUME NEW g, Sound(g), NEW h, PartOf(g, h), NEW n \in ToSet(g.nodes)
  PROVE  Cloned(g, n, h, clone_and_add(g, n, h))
<1> DEFINE M == ToSet(h.nodes)
           ops == Only(g.operands[n], DOMAIN h.node)
           new == clone_and_add(g, n, h)
           rec == g.node[n]
<1>1. /\ Sound(h) /\ DOMAIN h.node = M /\ n \in Names /\ rec \in NodeRecords /\ M \subseteq Names
  BY SoundIs DEF PartOf
<1>2. /\ g.operands[n] \in Seq(ToSet(g.nodes)) /\ \A m \in ToSet(g.operands[n]) : m[1] < n[1]
  BY SoundOperands
<1>3. ops \in Seq(ToSet(g.nodes)) /\ ToSet(ops) = ToSet(g.operands[n]) \cap M
  BY <1>1, <1>2, OnlyElements
<1> HIDE DEF ops, rec
<1>4. ops \in Seq(M) /\ \A m \in ToSet(ops) : m[1] < n[1]
  <2>1. ToSet(ops) \subseteq M
    BY <1>3
  <2> HIDE DEF M
  <2>2. ops \in Seq(M)
    BY <1>3, <2>1, SeqLarger
  <2> QED BY <1>2, <1>3, <2>2
<1>5. new = add_node(h, n, rec, ops)
  BY DEF clone_and_add, rec, ops
<1>6. Added(h, new, n, rec, ops)
  BY <1>1, <1>4, <1>5, AddNode
<1> HIDE DEF new
<1>7. Sound(new) /\ ToSet(new.nodes) = M \cup {n} /\ Keeps(h, new)
  BY <1>6 DEF Added
<1>8. n \notin M => new.node[n] = g.node[n]
  BY <1>6 DEF Added, rec
<1>9. PartOf(g, new)
  BY <1>7, <1>8 DEF PartOf, Keeps
<1>10. ASSUME SameOperands(g, h), ToSet(g.operands[n]) \subseteq M PROVE SameOperands(g, new)
  <2>1. ops = g.operands[n]
    BY <1>1, <1>2, <1>10, OnlyAllOrNone DEF ops
  <2>2. \A x \in M : new.operands[x] = g.operands[x]
    BY <1>7, <1>10 DEF Keeps, SameOperands
  <2>3. n \notin M => new.operands[n] = g.operands[n]
    BY <1>6, <2>1 DEF Added
  <2> QED BY <1>7, <2>2, <2>3 DEF SameOperands
<1> QED BY <1>7, <1>9, <1>10 DEF new, Cloned

(* Every node of s comes after those it reads.                             *)
ReadsEarlier(g, s) ==
  \A i \in 1..Len(s) : \A m \in ToSet(g.operands[s[i]]) : \E j \in 1..Len(s) : j < i /\ s[j] = m

(* All nodes of a sequence are cloned as they are.                         *)
LEMMA CloneAllIs ==
  ASSUME NEW g, Sound(g), NEW s \in Seq(ToSet(g.nodes))
  PROVE  /\ PartOf(g, CloneAll(g, EmptyGraph, s)) /\ ToSet(CloneAll(g, EmptyGraph, s).nodes) \subseteq ToSet(s)
         /\ \A i \in 1..Len(s) : s[i] \in ToSet(CloneAll(g, EmptyGraph, s).nodes)
         /\ ReadsEarlier(g, s) => SameOperands(g, CloneAll(g, EmptyGraph, s))
<1> DEFINE L == Len(s)
           X == {h \in AllGraphs : PartOf(g, h) /\ ToSet(h.nodes) \subseteq ToSet(s)}
           Same(h) == ReadsEarlier(g, s) => SameOperands(g, h)
           T == [k \in 0..L |-> {h \in X : Same(h) /\ \A i \in 1..k : s[i] \in ToSet(h.nodes)}]
           step == [i \in 1..L |-> [t \in X |-> clone_and_add(g, s[i], t)]]
           c == CloneAll(g, EmptyGraph, s)
<1>1. L \in Nat /\ \A i \in 1..L : s[i] \in ToSet(g.nodes) /\ s[i] \in ToSet(s)
  BY SeqElements
<1>2. EmptyGraph \in X /\ Same(EmptyGraph)
  BY EmptyGraphIsSound DEF PartOf, Sound, SameOperands
<1>3. EmptyGraph \in T[0]
  BY <1>1, <1>2
<1>4. ASSUME NEW i \in 1..L, NEW t \in X
      PROVE  step[i][t] \in X /\ Cloned(g, s[i], t, step[i][t])
  <2>1. step[i][t] = clone_and_add(g, s[i], t)
    OBVIOUS
  <2> DEFINE n == s[i]
             new == clone_and_add(g, n, t)
  <2>2. n \in ToSet(g.nodes) /\ n \in ToSet(s) /\ PartOf(g, t) /\ ToSet(t.nodes) \subseteq ToSet(s)
    BY <1>1
  <2> HIDE DEF n
  <2>3. Cloned(g, n, t, new)
    <3>1. PICK h : h = t
      OBVIOUS
    <3>2. PartOf(g, h)
      BY <2>2, <3>1
    <3> HIDE DEF X, step, T, L
    <3>3. Cloned(g, n, h, clone_and_add(g, n, h))
      BY <2>2, <3>2, CloneAndAdd
    <3> QED BY <3>1, <3>3
  <2> HIDE DEF new, step
  <2>4. new \in X
    BY <2>2, <2>3 DEF Cloned, PartOf, Sound
  <2>5. step[i][t] = new
    BY <2>1 DEF new, n
  <2> QED BY <2>3, <2>4, <2>5 DEF n
<1>5. ASSUME NEW i \in 1..L, NEW t \in T[i - 1] PROVE step[i][t] \in T[i]
  <2>1. i - 1 \in 0..L /\ i \in 0..L
    BY <1>1
  <2>2. t \in X /\ Same(t) /\ \A j \in 1..(i - 1) : s[j] \in ToSet(t.nodes)
    BY <2>1
  <2>3. step[i][t] \in X /\ Cloned(g, s[i], t, step[i][t])
    BY <1>4, <2>2
  <2> DEFINE new == step[i][t]
  <2> HIDE DEF new, step
  <2>4. \A j \in 1..i : s[j] \in ToSet(new.nodes)
    <3>1. \A j \in 1..i : j = i \/ j \in 1..(i - 1)
      BY <1>1
    <3> QED BY <2>2, <2>3, <3>1 DEF new, Cloned
  <2>5. Same(new)
    <3> SUFFICES ASSUME ReadsEarlier(g, s) PROVE SameOperands(g, new)
      OBVIOUS
    <3>1. \A m \in ToSet(g.operands[s[i]]) : \E j \in 1..L : j < i /\ s[j] = m
      BY DEF ReadsEarlier
    <3>2. \A j \in 1..L : j < i => j \in 1..(i - 1)
      BY <1>1
    <3>3. ToSet(g.operands[s[i]]) \subseteq ToSet(t.nodes)
      <4> HIDE DEF L
      <4> QED BY <2>2, <3>1, <3>2
    <3> QED BY <2>2, <2>3, <3>3 DEF new, Cloned
  <2> HIDE DEF Same
  <2> QED BY <2>1, <2>3, <2>4, <2>5 DEF new
<1>6. \A k \in 0..L : T[k] \subseteq X
  OBVIOUS
<1>7. PrefixHyp(L, X, T, EmptyGraph, step)
  <2> HIDE DEF L, X, T, step
  <2> QED BY <1>3, <1>4, <1>5, <1>6 DEF PrefixHyp
<1> DEFINE U == UpTo(L, X, T)
<1>8. FoldHyp(L, U, EmptyGraph, step) /\ U[1..L] \subseteq T[L]
  <2> HIDE DEF L, X, T, step
  <2> QED BY <1>1, <1>7, PrefixFold
<1>9. \A A \in SUBSET (1..L) : U[A] \subseteq X
  <2> HIDE DEF L, X, T
  <2> QED BY DEF UpTo
<1>10. c \in U[1..L]
  <2>1. FoldHyp(Len(s), U, EmptyGraph, [i \in 1..Len(s) |-> [t \in X |-> clone_and_add(g, s[i], t)]])
    BY <1>8
  <2>2. \A A \in SUBSET (1..Len(s)) : U[A] \subseteq X
    BY <1>9
  <2> HIDE DEF U, X, step
  <2> QED BY <2>1, <2>2, CloneAllFold
<1>11. c \in T[L]
  <2> HIDE DEF U, T, c
  <2> QED BY <1>8, <1>10
<1>12. L \in 0..L
  BY <1>1
<1> HIDE DEF c, L
<1> QED BY <1>11, <1>12 DEF c, L

(* Backward reads no forward op, and no forward op is updated.             *)
LEMMA NoUsersInBackward ==
  ASSUME NEW g, Plain(g), Recomputed(g), NEW n \in ToSet(g.nodes), is_forward(g, n), g.node[n].type = "PyOp"
  PROVE  ~has_users_in_bwd(g, n)
<1> SUFFICES ASSUME NEW m \in ToSet(data_users(g, n)), is_backward(g, m) PROVE FALSE
  BY DEF has_users_in_bwd
<1>1. m \in ToSet(g.nodes) /\ UserOf(g, n, m)
  BY DataUsersIs DEF Plain
<1>2. <<n, m>> \notin g.loopback
  <2>1. ~is_optimizer(g, n)
    BY DEF is_forward, is_optimizer
  <2> QED BY <2>1 DEF Plain, LoopbackGood
<1>3. n \in ToSet(g.operands[m])
  BY <1>1, <1>2 DEF UserOf
<1>4. ReadsNoForward(g, m)
  BY <1>1 DEF Recomputed
<1> QED BY <1>3, <1>4 DEF ReadsNoForward

(* What extract_forward_graph makes of graph b with all its nodes.         *)
Marked(g, b, inputs, outputs) ==
  [b EXCEPT !.inputs = inputs, !.outputs = outputs, !.node = MarkIntermediates(g, b.node)]

(* The forward graph of a recomputed one: no output is an intermediate.    *)
LEMMA ForwardOutputs ==
  ASSUME NEW g, Plain(g), Recomputed(g), NEW f, f = extract_forward_graph(g)
  PROVE  /\ f.outputs = g.outputs
         /\ \A i \in DOMAIN f.outputs : ~f.node[f.outputs[i]].intermediate
<1> DEFINE S == {n \in DOMAIN g.node : is_forward(g, n)}
           s == Only(topological_sort(g), S)
           C == {n \in DOMAIN g.node : needs_intermediate_output(g, n)}
           crossing == Only(g.nodes, C)
           inputs == Only(ordered_module_inputs(g), S)
           fwd == CloneAll(g, EmptyGraph, s)
           both == AddIntermediates(fwd, crossing)
<1>1. Sound(g) /\ DOMAIN g.node = ToSet(g.nodes) /\ g.outputs \in Seq(Names)
  BY SoundIs DEF Plain
<1>2. f = Marked(g, both, inputs, g.outputs \o [i \in DOMAIN crossing |-> Intermediate(crossing[i])])
  BY DEF extract_forward_graph, Marked, CloneAll, AddIntermediates, IntermediateOutput, FoldLeft, MapThenFoldSet
<1>3. \A n \in S : n \in ToSet(g.nodes) /\ is_forward(g, n)
  BY <1>1
<1>4. \A n \in ToSet(g.nodes) : is_forward(g, n) => n \in S
  BY <1>1
<1>5. C = {}
  <2> SUFFICES ASSUME NEW n \in ToSet(g.nodes), needs_intermediate_output(g, n) PROVE FALSE
    BY <1>1
  <2> QED BY NoUsersInBackward DEF needs_intermediate_output
<1>6. crossing = <<>>
  <2> HIDE DEF C
  <2>1. crossing \in Seq(ToSet(g.nodes)) /\ ToSet(crossing) = ToSet(g.nodes) \cap C
    BY <1>1, NodesByType
  <2>2. ToSet(crossing) = {}
    BY <1>5, <2>1
  <2> DEFINE N == ToSet(g.nodes)
  <2> HIDE DEF crossing, N
  <2>3. crossing \in Seq(N)
    BY <2>1 DEF N
  <2> QED BY <2>2, <2>3, EmptyElements DEF IsEmpty
<1> HIDE DEF S, C, crossing, inputs
<1>7. both = fwd
  BY <1>6, NoIntermediates
<1>8. g.outputs \o [i \in DOMAIN crossing |-> Intermediate(crossing[i])] = g.outputs
  <2>1. [i \in DOMAIN crossing |-> Intermediate(crossing[i])] = <<>>
    BY <1>6
  <2> QED BY <1>1, <2>1
<1>9. s \in Seq(ToSet(g.nodes)) /\ ToSet(s) = ToSet(g.nodes) \cap S
  BY <1>1, SortedNodes
<1> HIDE DEF s
<1>10. PartOf(g, fwd) /\ \A i \in 1..Len(s) : s[i] \in ToSet(fwd.nodes)
  BY <1>1, <1>9, CloneAllIs
<1> HIDE DEF fwd, both
<1>11. Sound(fwd) /\ fwd \in AllGraphs /\ DOMAIN fwd.node = ToSet(fwd.nodes)
  BY <1>10, SoundIs DEF PartOf, Sound
<1> DEFINE Mark(n) == [fwd.node[n] EXCEPT !.intermediate = @ \/ (n \in DOMAIN g.node /\ IsIntermediate(g, n))]
           node == [n \in DOMAIN fwd.node |-> Mark(n)]
<1>12. f.outputs = g.outputs /\ f.node = node
  <2>1. f = [fwd EXCEPT !.inputs = inputs, !.outputs = g.outputs, !.node = node]
    <3> DEFINE outputs == g.outputs \o [i \in DOMAIN crossing |-> Intermediate(crossing[i])]
    <3>1. f = Marked(g, both, inputs, outputs)
      BY <1>2
    <3> HIDE DEF outputs
    <3>2. f = Marked(g, fwd, inputs, g.outputs)
      BY <1>7, <1>8, <3>1 DEF outputs
    <3>3. MarkIntermediates(g, fwd.node) = node
      BY DEF MarkIntermediates
    <3> HIDE DEF node
    <3> QED BY <3>2, <3>3 DEF Marked
  <2>2. fwd = [nodes |-> fwd.nodes, node |-> fwd.node, operands |-> fwd.operands, loopback |-> fwd.loopback,
               inputs |-> fwd.inputs, outputs |-> fwd.outputs]
    BY <1>11 DEF AllGraphs
  <2> HIDE DEF node
  <2>3. f = [nodes |-> fwd.nodes, node |-> node, operands |-> fwd.operands, loopback |-> fwd.loopback,
             inputs |-> inputs, outputs |-> g.outputs]
    BY <2>1, <2>2
  <2> QED BY <2>3
<1>13. ASSUME NEW o \in ToSet(g.outputs) PROVE ~node[o].intermediate
  <2>1. PICK V : Returns(g, V)
    BY DEF Plain
  <2>2. /\ o \in ToSet(g.nodes) /\ is_forward(g, o) /\ ~g.node[o].intermediate
        /\ g.operands[o][1] \in ToSet(g.nodes) /\ is_forward(g, g.operands[o][1])
        /\ g.node[g.operands[o][1]].type = "PyOp"
    BY <2>1 DEF Returns
  <2>3. ~IsIntermediate(g, o)
    BY <2>2, NoUsersInBackward DEF IsIntermediate
  <2>4. o \in ToSet(fwd.nodes)
    <3>1. o \in ToSet(s)
      BY <1>4, <1>9, <2>2
    <3>2. ToSet(s) = {s[i] : i \in 1..Len(s)}
      BY <1>9, SeqElements
    <3> QED BY <1>10, <3>1, <3>2
  <2>5. fwd.node[o] = g.node[o] /\ g.node[o] \in NodeRecords
    BY <1>1, <1>10, <2>2, <2>4, SoundIs DEF PartOf
  <2>6. node[o] = Mark(o)
    BY <1>11, <2>4
  <2>7. Mark(o).intermediate = FALSE
    <3> DEFINE r == fwd.node[o]
    <3>1. r \in NodeRecords /\ ~r.intermediate
      BY <2>2, <2>5
    <3> HIDE DEF r
    <3>2. [r EXCEPT !.intermediate = @ \/ (o \in DOMAIN g.node /\ IsIntermediate(g, o))].intermediate = FALSE
      BY <2>3, <3>1 DEF NodeRecords
    <3> QED BY <3>2 DEF r
  <2> HIDE DEF node, Mark
  <2> QED BY <2>6, <2>7
<1>14. \A i \in DOMAIN g.outputs : g.outputs[i] \in ToSet(g.outputs)
  BY DEF ToSet
<1> HIDE DEF node
<1> QED BY <1>12, <1>13, <1>14

(* The invariant has the property.                                         *)
LEMMA FreesIntermediates ==
  ASSUME GraphInv
  PROVE  RecomputeFreesIntermediates
<1> SUFFICES ASSUME stage = "done", config.recompute
             PROVE  /\ intermediates = <<>>
                    /\ \A n \in DOMAIN graph.node : n \in Range(fwd_to_recompute) => data_users(graph, n) # <<>>
  BY DEF RecomputeFreesIntermediates, Done
<1>1. /\ Plain(graph) /\ Sound(graph) /\ Recomputed(graph) /\ Forward = extract_forward_graph(graph)
      /\ \A n \in DOMAIN fwd_to_recompute : IsClone(fwd_to_recompute[n])
      /\ \A n \in ToSet(graph.nodes) : IsClone(n) => Used(graph, n)
  BY DEF GraphInv, RecomputedInv, Finishing, Plain, Forward
<1>2. /\ Forward.outputs = graph.outputs
      /\ \A i \in DOMAIN Forward.outputs : ~Forward.node[Forward.outputs[i]].intermediate
  BY <1>1, ForwardOutputs
<1>3. intermediates = <<>>
  <2> DEFINE s == Indices(Forward.outputs)
             S == {i \in DOMAIN Forward.outputs : Forward.node[Forward.outputs[i]].intermediate}
             kept == Only(s, S)
  <2>1. S = {}
    BY <1>2
  <2>2. s \in Seq(Nat)
    <3>1. graph.outputs \in Seq(Names)
      BY <1>1, SoundIs
    <3> QED BY <1>2, <3>1 DEF Indices
  <2>3. intermediates = [i \in DOMAIN kept |-> all_outputs[kept[i]]]
    BY DEF intermediates
  <2> HIDE DEF S, s
  <2>4. kept \in Seq(Nat) /\ ToSet(kept) = {}
    BY <2>1, <2>2, OnlyElements
  <2> HIDE DEF kept
  <2>5. kept = <<>>
    BY <2>4, EmptyElements DEF IsEmpty
  <2> QED BY <2>3, <2>5
<1>4. ASSUME NEW n \in DOMAIN graph.node, n \in Range(fwd_to_recompute) PROVE data_users(graph, n) # <<>>
  <2>1. n \in ToSet(graph.nodes) /\ IsClone(n)
    BY <1>1, <1>4, SoundIs DEF Range
  <2>2. PICK m \in ToSet(graph.nodes) : n \in ToSet(graph.operands[m])
    BY <1>1, <2>1 DEF Used
  <2> QED BY <1>1, <2>2, DataUsersIs DEF UserOf
<1> QED BY <1>3, <1>4

(* With recomputation backward needs no intermediate result, and no        *)
(* recomputed op is without a user.                                        *)
THEOREM RecomputationFreesIntermediates == Spec => []RecomputeFreesIntermediates
<1>1. GraphInv => RecomputeFreesIntermediates
  BY FreesIntermediates
<1> QED BY <1>1, GraphInvariant, PTL

-----------------------------------------------------------------------------
(* Splitting: the backward graph.                                          *)

(* The loop that adds inputs is a fold.                                    *)
LEMMA InputsFold ==
  ASSUME NEW node, NEW E, NEW s \in Seq(E), NEW base, NEW X, NEW T, \A A \in SUBSET (1..Len(s)) : T[A] \subseteq X,
         FoldHyp(Len(s), T, base, [i \in 1..Len(s) |-> [t \in X |-> add_node(t, s[i], node[s[i]], <<>>)]])
  PROVE  add_inputs(base, s, node) \in T[1..Len(s)]
<1> DEFINE n == Len(s)
           step == [i \in 1..n |-> [t \in X |-> add_node(t, s[i], node[s[i]], <<>>)]]
           Eq(f) == f = [A \in SUBSET (DOMAIN s) |->
                           IF A = {} THEN base ELSE add_node(f[A \ {Max(A)}], s[Max(A)], node[s[Max(A)]], <<>>)]
           c == CHOOSE f : Eq(f)
<1>1. n \in Nat /\ DOMAIN s = 1..n
  OBVIOUS
<1>2. add_inputs(base, s, node) = c[DOMAIN s]
  BY DEF add_inputs, FoldLeft, MapThenFoldSet
<1>3. FoldHyp(n, T, base, step)
  OBVIOUS
<1>4. PICK f : FoldFun(n, base, step, f) /\ \A A \in SUBSET (1..n) : f[A] \in T[A]
  <2> HIDE DEF n, step
  <2> QED BY <1>1, <1>3, FoldExists
<1>5. ASSUME NEW A \in SUBSET (1..n), A # {}, NEW t \in X
      PROVE  step[Max(A)][t] = add_node(t, s[Max(A)], node[s[Max(A)]], <<>>)
  <2>1. Max(A) \in 1..n
    <3> HIDE DEF n
    <3> QED BY <1>1, <1>5, MaxOf
  <2> QED BY <2>1
<1>6. ASSUME NEW A \in SUBSET (1..n), A # {}
      PROVE  step[Max(A)][f[A \ {Max(A)}]] = add_node(f[A \ {Max(A)}], s[Max(A)], node[s[Max(A)]], <<>>)
  <2>1. f[A \ {Max(A)}] \in X
    <3> HIDE DEF n
    <3> QED BY <1>4 DEF n
  <2> HIDE DEF step, n
  <2> QED BY <1>5, <1>6, <2>1
<1>7. Eq(f)
  <2> HIDE DEF step, n
  <2> QED BY <1>1, <1>4, <1>6 DEF FoldFun
<1>8. Eq(c)
  <2> HIDE DEF Eq
  <2> QED BY <1>7
<1>9. \A A \in SUBSET (1..n) :
         c[A] = IF A = {} THEN base ELSE add_node(c[A \ {Max(A)}], s[Max(A)], node[s[Max(A)]], <<>>)
  <2> HIDE DEF c, n
  <2> QED BY <1>1, <1>8
<1>10. c[{}] = base /\ StepSame(n, X, step, c)
  <2>1. c[{}] = base
    <3> HIDE DEF c, n
    <3> QED BY <1>9
  <2> HIDE DEF c, n, step
  <2> QED BY <1>5, <1>9, <2>1 DEF StepSame
<1>11. c[1..n] \in T[1..n]
  <2>1. \A A \in SUBSET (1..n) : T[A] \subseteq X
    OBVIOUS
  <2> HIDE DEF c, n, step
  <2> QED BY <1>1, <1>3, <1>10, <2>1, FoldReaches
<1> QED BY <1>1, <1>2, <1>11

(* The nodes of s are added to the backward graph.                         *)
AddAllBackward(g, fwd, base, s) == FoldLeft(LAMBDA new, n : AddBackward(g, fwd, new, n), base, s)

(* The loop over the backward nodes is a fold.                             *)
LEMMA BackwardFold ==
  ASSUME NEW g, NEW fwd, NEW E, NEW s \in Seq(E), NEW base, NEW X, NEW T,
         \A A \in SUBSET (1..Len(s)) : T[A] \subseteq X,
         FoldHyp(Len(s), T, base, [i \in 1..Len(s) |-> [t \in X |-> AddBackward(g, fwd, t, s[i])]])
  PROVE  AddAllBackward(g, fwd, base, s) \in T[1..Len(s)]
<1> DEFINE n == Len(s)
           step == [i \in 1..n |-> [t \in X |-> AddBackward(g, fwd, t, s[i])]]
           Eq(f) == f = [A \in SUBSET (DOMAIN s) |->
                           IF A = {} THEN base ELSE AddBackward(g, fwd, f[A \ {Max(A)}], s[Max(A)])]
           c == CHOOSE f : Eq(f)
<1>1. n \in Nat /\ DOMAIN s = 1..n
  OBVIOUS
<1>2. AddAllBackward(g, fwd, base, s) = c[DOMAIN s]
  BY DEF AddAllBackward, FoldLeft, MapThenFoldSet
<1>3. FoldHyp(n, T, base, step)
  OBVIOUS
<1>4. PICK f : FoldFun(n, base, step, f) /\ \A A \in SUBSET (1..n) : f[A] \in T[A]
  <2> HIDE DEF n, step
  <2> QED BY <1>1, <1>3, FoldExists
<1>5. ASSUME NEW A \in SUBSET (1..n), A # {}, NEW t \in X
      PROVE  step[Max(A)][t] = AddBackward(g, fwd, t, s[Max(A)])
  <2>1. Max(A) \in 1..n
    <3> HIDE DEF n
    <3> QED BY <1>1, <1>5, MaxOf
  <2> QED BY <2>1
<1>6. ASSUME NEW A \in SUBSET (1..n), A # {}
      PROVE  step[Max(A)][f[A \ {Max(A)}]] = AddBackward(g, fwd, f[A \ {Max(A)}], s[Max(A)])
  <2>1. f[A \ {Max(A)}] \in X
    <3> HIDE DEF n
    <3> QED BY <1>4 DEF n
  <2> HIDE DEF step, n
  <2> QED BY <1>5, <1>6, <2>1
<1>7. Eq(f)
  <2> HIDE DEF step, n
  <2> QED BY <1>1, <1>4, <1>6 DEF FoldFun
<1>8. Eq(c)
  <2> HIDE DEF Eq
  <2> QED BY <1>7
<1>9. \A A \in SUBSET (1..n) :
         c[A] = IF A = {} THEN base ELSE AddBackward(g, fwd, c[A \ {Max(A)}], s[Max(A)])
  <2> HIDE DEF c, n
  <2> QED BY <1>1, <1>8
<1>10. c[{}] = base /\ StepSame(n, X, step, c)
  <2>1. c[{}] = base
    <3> HIDE DEF c, n
    <3> QED BY <1>9
  <2> HIDE DEF c, n, step
  <2> QED BY <1>5, <1>9, <2>1 DEF StepSame
<1>11. c[1..n] \in T[1..n]
  <2>1. \A A \in SUBSET (1..n) : T[A] \subseteq X
    OBVIOUS
  <2> HIDE DEF c, n, step
  <2> QED BY <1>1, <1>3, <1>10, <2>1, FoldReaches
<1> QED BY <1>1, <1>2, <1>11

(* The sequences of s, one after the other.                                *)
LEMMA FlattenIs ==
  ASSUME NEW X, NEW s \in Seq(Seq(X))
  PROVE  FlattenSeq(s) \in Seq(X)
<1> DEFINE n == Len(s)
<1>1. n \in Nat /\ \A i \in 1..n : s[i] \in Seq(X)
  OBVIOUS
<1>2. CASE n = 0
  <2>1. s = <<>>
    BY <1>2
  <2> QED BY <1>2, <2>1 DEF FlattenSeq
<1>3. CASE n # 0
  <2> DEFINE S == Seq(X)
             T == [i \in 0..(n - 1) |-> S]
             step == [i \in 1..(n - 1) |-> [t \in S |-> t \o s[i + 1]]]
             Eq(f) == f = [i \in 1..n |-> IF i = 1 THEN s[i] ELSE f[i - 1] \o s[i]]
  <2>1. n - 1 \in Nat /\ 1 \in 1..n
        /\ \A i \in 1..(n - 1) : i + 1 \in 1..n /\ i - 1 \in 0..(n - 1) /\ i \in 0..(n - 1)
    BY <1>1, <1>3
  <2>2. \A t \in S : \A i \in 1..n : t \o s[i] \in S
    BY <1>1, ConcatProperties
  <2>3. RecursionHyp(n - 1, T, s[1], step)
    <3>1. s[1] \in T[0]
      BY <1>1, <2>1
    <3>2. ASSUME NEW i \in 1..(n - 1), NEW t \in T[i - 1] PROVE step[i][t] \in T[i]
      <4>1. t \in S /\ i + 1 \in 1..n /\ i \in 0..(n - 1)
        BY <2>1
      <4>2. t \o s[i + 1] \in S
        BY <2>2, <4>1
      <4> HIDE DEF S, n
      <4> QED BY <4>1, <4>2
    <3> HIDE DEF T, step, n
    <3> QED BY <3>1, <3>2 DEF RecursionHyp
  <2>4. PICK h : /\ h = [i \in 0..(n - 1) |-> IF i = 0 THEN s[1] ELSE step[i][h[i - 1]]]
                 /\ \A i \in 0..(n - 1) : h[i] \in T[i]
    <3> HIDE DEF T, step, n
    <3> QED BY <2>1, <2>3, RecursionExists
  <2> DEFINE f == [i \in 1..n |-> h[i - 1]]
  <2>5. \A i \in 0..(n - 1) : h[i] \in S
    <3> HIDE DEF S, n
    <3> QED BY <2>4
  <2>6. Eq(f)
    <3>1. \A i \in 1..n : /\ i - 1 \in 0..(n - 1)
                          /\ i # 1 => i - 1 \in 1..(n - 1) /\ i - 1 # 0 /\ (i - 1) + 1 = i /\ i - 1 \in 1..n
      BY <1>1, <1>3
    <3>2. h[0] = s[1]
      <4> HIDE DEF step, n
      <4> QED BY <2>1, <2>4
    <3>3. ASSUME NEW i \in 1..n, i # 1 PROVE h[i - 1] = h[(i - 1) - 1] \o s[i]
      <4> DEFINE k == i - 1
      <4>1. k \in 1..(n - 1) /\ k # 0 /\ k + 1 = i /\ k - 1 \in 0..(n - 1) /\ k \in 0..(n - 1)
        BY <2>1, <3>1, <3>3
      <4> HIDE DEF k, n
      <4>2. h[k] = step[k][h[k - 1]]
        <5> HIDE DEF step
        <5> QED BY <2>4, <4>1
      <4>3. h[k - 1] \in S
        <5> HIDE DEF S
        <5> QED BY <2>5, <4>1
      <4>4. step[k][h[k - 1]] = h[k - 1] \o s[k + 1]
        <5> HIDE DEF S
        <5> QED BY <4>1, <4>3
      <4>5. h[k] = h[k - 1] \o s[i]
        <5> HIDE DEF step
        <5> QED BY <4>1, <4>2, <4>4
      <4> QED BY <4>5 DEF k
    <3>4. \A i \in 1..n : f[i] = h[i - 1] /\ (i # 1 => f[i - 1] = h[(i - 1) - 1])
      <4> HIDE DEF n
      <4> QED BY <3>1
    <3>5. \A i \in 1..n : f[i] = IF i = 1 THEN s[i] ELSE f[i - 1] \o s[i]
      <4> HIDE DEF f, n
      <4>1. 1 - 1 = 0
        OBVIOUS
      <4> QED BY <3>2, <3>3, <3>4, <4>1
    <3>6. f = [i \in 1..n |-> f[i]]
      OBVIOUS
    <3> HIDE DEF f, n
    <3> QED BY <3>5, <3>6
  <2> DEFINE c == CHOOSE f_1 : Eq(f_1)
  <2>7. Eq(c)
    <3> HIDE DEF Eq, f
    <3> QED BY <2>6
  <2>8. FlattenSeq(s) = c[n]
    BY <1>3 DEF FlattenSeq
  <2>9. \A i \in 0..n : i = 0 \/ c[i] \in S
    <3> DEFINE G == {i \in 0..n : i = 0 \/ c[i] \in S}
    <3>1. 0 \in G
      BY <1>1
    <3>2. ASSUME NEW i \in 0..n, i \in G, i < n PROVE i + 1 \in G
      <4> DEFINE k == i + 1
      <4>1. k \in 1..n /\ k \in 0..n /\ k - 1 = i /\ (k # 1 => i # 0)
        BY <3>2
      <4> HIDE DEF k
      <4>2. c[k] = IF k = 1 THEN s[k] ELSE c[i] \o s[k]
        <5> HIDE DEF c, n
        <5> QED BY <2>7, <4>1
      <4>3. k = 1 \/ c[i] \in S
        BY <3>2, <4>1
      <4> HIDE DEF c, n, S
      <4>4. c[k] \in S
        BY <1>1, <2>2, <4>1, <4>2, <4>3 DEF S
      <4>5. k \in G
        BY <4>1, <4>4
      <4> QED BY <4>5 DEF k
    <3> HIDE DEF G, n
    <3>3. \A i \in 0..n : i \in G
      BY <1>1, <3>1, <3>2, InductionTo
    <3> QED BY <3>3 DEF G
  <2> HIDE DEF c
  <2>10. n \in 0..n /\ n # 0
    BY <1>1, <1>3
  <2> QED BY <2>8, <2>9, <2>10
<1> QED BY <1>2, <1>3

(* A graph whose nodes are known, whatever they read.                      *)
Loose(h) == h \in AllGraphs /\ DOMAIN h.node = ToSet(h.nodes) /\ DOMAIN h.operands = ToSet(h.nodes)

(* The node is added when the graph has none of its name.                  *)
AddedTo(h, new, name, rec, ops) ==
  /\ Loose(new) /\ DOMAIN new.node = DOMAIN h.node \cup {name}
  /\ \A x \in DOMAIN h.node : new.node[x] = h.node[x] /\ new.operands[x] = h.operands[x]
  /\ name \notin DOMAIN h.node => new.node[name] = rec /\ new.operands[name] = ops

(* add_node adds a node, whatever it reads.                                *)
LEMMA AddToLoose ==
  ASSUME NEW h, Loose(h), NEW name \in Names, NEW rec \in NodeRecords, NEW ops \in Seq(Names)
  PROVE  AddedTo(h, add_node(h, name, rec, ops), name, rec, ops)
<1> DEFINE nodes == Append(h.nodes, name)
           node == Extend(h.node, name, rec)
           operands == Extend(h.operands, name, ops)
           new == add_node(h, name, rec, ops)
<1>1. /\ h.nodes \in Seq(Names) /\ h.loopback \in SUBSET (Names \X Names)
      /\ h.inputs \in Seq(Names) /\ h.outputs \in Seq(Names)
      /\ h = [nodes |-> h.nodes, node |-> h.node, operands |-> h.operands, loopback |-> h.loopback,
              inputs |-> h.inputs, outputs |-> h.outputs]
  BY DEF Loose, AllGraphs
<1>2. PICK D \in SUBSET Names : h.node \in [D -> NodeRecords]
  BY DEF Loose, AllGraphs, PartialMaps
<1>3. PICK E \in SUBSET Names : h.operands \in [E -> Seq(Names)]
  BY DEF Loose, AllGraphs, PartialMaps
<1>4. node = [y \in D \cup {name} |-> IF y \in D THEN h.node[y] ELSE rec]
  BY <1>2 DEF Extend
<1>5. operands = [y \in E \cup {name} |-> IF y \in E THEN h.operands[y] ELSE ops]
  BY <1>3 DEF Extend
<1>6. /\ nodes \in Seq(Names) /\ ToSet(nodes) = ToSet(h.nodes) \cup {name}
  BY <1>1, SeqAppend
<1>7. new = [h EXCEPT !.nodes = nodes, !.node = node, !.operands = operands]
  BY DEF add_node
<1> HIDE DEF nodes, node, operands, new
<1>8. new = [nodes |-> nodes, node |-> node, operands |-> operands, loopback |-> h.loopback,
             inputs |-> h.inputs, outputs |-> h.outputs]
  BY <1>1, <1>7
<1>9. node \in [D \cup {name} -> NodeRecords] /\ D \cup {name} \in SUBSET Names
  BY <1>2, <1>4
<1>10. operands \in [E \cup {name} -> Seq(Names)] /\ E \cup {name} \in SUBSET Names
  BY <1>3, <1>5
<1>11. node \in PartialMaps(Names, NodeRecords) /\ operands \in PartialMaps(Names, Seq(Names))
  BY <1>9, <1>10 DEF PartialMaps
<1>12. new \in AllGraphs
  BY <1>1, <1>6, <1>8, <1>11 DEF AllGraphs
<1>13. new.nodes = nodes /\ new.node = node /\ new.operands = operands
  BY <1>8
<1>14. D = ToSet(h.nodes) /\ D = DOMAIN h.node /\ E = D
  BY <1>2, <1>3 DEF Loose
<1>15. Loose(new)
  BY <1>6, <1>9, <1>10, <1>12, <1>13, <1>14 DEF Loose
<1>16. \A x \in D : node[x] = h.node[x] /\ operands[x] = h.operands[x]
  BY <1>4, <1>5, <1>14
<1>17. name \notin D => node[name] = rec /\ operands[name] = ops
  BY <1>4, <1>5, <1>14
<1> QED BY <1>9, <1>13, <1>14, <1>15, <1>16, <1>17 DEF AddedTo, new

(* The empty graph is loose.                                               *)
LEMMA EmptyIsLoose == Loose(EmptyGraph) /\ DOMAIN EmptyGraph.node = {}
<1>1. Sound(EmptyGraph) /\ ToSet(EmptyGraph.nodes) = {}
  BY EmptyGraphIsSound
<1> QED BY <1>1, SoundIs DEF Loose, Sound

(* The graph that the intermediate outputs of nodes of s are added to.     *)
Extended(s, fwd, h) ==
  /\ Loose(h) /\ DOMAIN fwd.node \subseteq DOMAIN h.node
  /\ \A x \in DOMAIN fwd.node : h.node[x] = fwd.node[x] /\ h.operands[x] = fwd.operands[x]
  /\ \A x \in DOMAIN h.node :
        \/ x \in DOMAIN fwd.node
        \/ \E n \in ToSet(s) : x = Intermediate(n) /\ h.node[x] = IntermediateOutput /\ h.operands[x] = <<n>>

(* The intermediate outputs are all added.                                 *)
LEMMA IntermediatesAre ==
  ASSUME NEW g, Sound(g), NEW fwd, Loose(fwd), NEW s \in Seq(ToSet(g.nodes))
  PROVE  /\ Extended(s, fwd, AddIntermediates(fwd, s))
         /\ \A i \in 1..Len(s) : Intermediate(s[i]) \in DOMAIN AddIntermediates(fwd, s).node
<1> DEFINE L == Len(s)
           X == {h \in AllGraphs : Extended(s, fwd, h)}
           T == [k \in 0..L |-> {h \in X : \A i \in 1..k : Intermediate(s[i]) \in DOMAIN h.node}]
           step == [i \in 1..L |-> [t \in X |-> add_node(t, Intermediate(s[i]), IntermediateOutput, <<s[i]>>)]]
           c == AddIntermediates(fwd, s)
<1>1. L \in Nat /\ \A i \in 1..L : s[i] \in ToSet(g.nodes)
  OBVIOUS
<1>2. fwd \in X
  BY DEF Extended, Loose
<1>3. fwd \in T[0]
  BY <1>1, <1>2
<1>4. ASSUME NEW n \in ToSet(g.nodes), NEW t \in X,
             NEW new, new = add_node(t, Intermediate(n), IntermediateOutput, <<n>>), n \in ToSet(s)
      PROVE  new \in X /\ DOMAIN new.node = DOMAIN t.node \cup {Intermediate(n)}
  <2>1. n \in Names /\ <<n>> \in Seq(Names)
    <3>1. n \in Names
      BY SoundIs
    <3> QED BY <3>1
  <2>2. Intermediate(n) \in Names
    <3>1. "intermediate" \in Tags
      BY DEF Tags
    <3> QED BY <2>1, <3>1, SuffixedIs DEF Intermediate
  <2>3. IntermediateOutput \in NodeRecords
    <3>1. "Output" \in NodeTypes /\ "none" \in Kinds /\ "Forward" \in Epochs
      BY DEF NodeTypes, Kinds, Epochs
    <3> QED BY <3>1 DEF IntermediateOutput, NodeRecords, Node
  <2>4. AddedTo(t, new, Intermediate(n), IntermediateOutput, <<n>>)
    BY <1>4, <2>1, <2>2, <2>3, AddToLoose DEF Extended
  <2>5. Extended(s, fwd, t)
    OBVIOUS
  <2>6. \A x \in DOMAIN fwd.node : new.node[x] = fwd.node[x] /\ new.operands[x] = fwd.operands[x]
    BY <2>4, <2>5 DEF AddedTo, Extended
  <2>7. ASSUME NEW x \in DOMAIN new.node, x \notin DOMAIN fwd.node
        PROVE  \E m \in ToSet(s) : x = Intermediate(m) /\ new.node[x] = IntermediateOutput /\ new.operands[x] = <<m>>
    <3>1. CASE x \in DOMAIN t.node
      BY <2>4, <2>5, <2>7, <3>1 DEF AddedTo, Extended
    <3>2. CASE x \notin DOMAIN t.node
      BY <1>4, <2>4, <2>7, <3>2 DEF AddedTo
    <3> QED BY <3>1, <3>2
  <2>8. Extended(s, fwd, new)
    BY <2>4, <2>5, <2>6, <2>7 DEF AddedTo, Extended
  <2> QED BY <2>4, <2>8 DEF AddedTo, Loose
<1>5. ASSUME NEW i \in 1..L, NEW t \in X
      PROVE  step[i][t] \in X /\ DOMAIN step[i][t].node = DOMAIN t.node \cup {Intermediate(s[i])}
  <2>1. step[i][t] = add_node(t, Intermediate(s[i]), IntermediateOutput, <<s[i]>>)
    OBVIOUS
  <2> DEFINE n == s[i]
             new == step[i][t]
  <2>2. /\ n \in ToSet(g.nodes) /\ n \in ToSet(s)
        /\ new = add_node(t, Intermediate(n), IntermediateOutput, <<n>>)
    BY <1>1, <2>1, SeqElements
  <2> HIDE DEF n, new, step, X
  <2>3. new \in X /\ DOMAIN new.node = DOMAIN t.node \cup {Intermediate(n)}
    BY <1>4, <2>2
  <2> QED BY <2>3 DEF n, new
<1>6. ASSUME NEW i \in 1..L, NEW t \in T[i - 1] PROVE step[i][t] \in T[i]
  <2>1. i - 1 \in 0..L /\ i \in 0..L
    BY <1>1
  <2>2. t \in X /\ \A j \in 1..(i - 1) : Intermediate(s[j]) \in DOMAIN t.node
    BY <2>1
  <2> DEFINE new == step[i][t]
  <2>3. new \in X /\ DOMAIN new.node = DOMAIN t.node \cup {Intermediate(s[i])}
    BY <1>5, <2>2
  <2> HIDE DEF new, step
  <2>4. \A j \in 1..i : Intermediate(s[j]) \in DOMAIN new.node
    <3>1. \A j \in 1..i : j = i \/ j \in 1..(i - 1)
      BY <1>1
    <3> QED BY <2>2, <2>3, <3>1
  <2> QED BY <2>1, <2>3, <2>4 DEF new
<1>7. \A k \in 0..L : T[k] \subseteq X
  OBVIOUS
<1>8. PrefixHyp(L, X, T, fwd, step)
  <2> HIDE DEF L, X, T, step
  <2> QED BY <1>3, <1>5, <1>6, <1>7 DEF PrefixHyp
<1> DEFINE U == UpTo(L, X, T)
<1>9. FoldHyp(L, U, fwd, step) /\ U[1..L] \subseteq T[L]
  <2> HIDE DEF L, X, T, step
  <2> QED BY <1>1, <1>8, PrefixFold
<1>10. \A A \in SUBSET (1..L) : U[A] \subseteq X
  <2> HIDE DEF L, X, T
  <2> QED BY DEF UpTo
<1>11. c \in U[1..L]
  <2>1. FoldHyp(Len(s), U, fwd,
                [i \in 1..Len(s) |-> [t \in X |-> add_node(t, Intermediate(s[i]), IntermediateOutput, <<s[i]>>)]])
    BY <1>9
  <2>2. \A A \in SUBSET (1..Len(s)) : U[A] \subseteq X
    BY <1>10
  <2> HIDE DEF U, X, step
  <2> QED BY <2>1, <2>2, IntermediatesFold
<1>12. c \in T[L]
  <2> HIDE DEF U, T, c
  <2> QED BY <1>9, <1>11
<1>13. L \in 0..L
  BY <1>1
<1> HIDE DEF c, L
<1> QED BY <1>12, <1>13 DEF c, L

(* What the nodes and the outputs of the forward graph are named after.    *)
ForwardName(g, x) == (x \in ToSet(g.nodes) /\ is_forward(g, x)) \/ \E n \in ToSet(g.nodes) : x = Intermediate(n)
ForwardOutput(g, x) == x \in ToSet(g.outputs) \/ \E n \in ToSet(g.nodes) : x = Intermediate(n)

(* What is known of the forward graph.                                     *)
ForwardOf(g, f) ==
  /\ f.nodes \in Seq(Names) /\ DOMAIN f.node = ToSet(f.nodes)
  /\ f.inputs = Only(ordered_module_inputs(g), {n \in DOMAIN g.node : is_forward(g, n)})
  /\ f.outputs \in Seq(ToSet(f.nodes))
  /\ \A x \in ToSet(f.nodes) : ForwardName(g, x)
  /\ \A x \in ToSet(f.outputs) : ForwardOutput(g, x)

(* extract_forward_graph makes such a graph of a plain one.                *)
LEMMA ForwardGraphIs ==
  ASSUME NEW g, Plain(g), NEW f, f = extract_forward_graph(g)
  PROVE  ForwardOf(g, f)
<1> DEFINE N == ToSet(g.nodes)
           S == {n \in DOMAIN g.node : is_forward(g, n)}
           s == Only(topological_sort(g), S)
           C == {n \in DOMAIN g.node : needs_intermediate_output(g, n)}
           crossing == Only(g.nodes, C)
           inputs == Only(ordered_module_inputs(g), S)
           added == [i \in DOMAIN crossing |-> Intermediate(crossing[i])]
           fwd == CloneAll(g, EmptyGraph, s)
           both == AddIntermediates(fwd, crossing)
<1>1. Sound(g) /\ DOMAIN g.node = N /\ g.outputs \in Seq(Names)
  BY SoundIs DEF Plain
<1>2. f = Marked(g, both, inputs, g.outputs \o added)
  BY DEF extract_forward_graph, Marked, CloneAll, AddIntermediates, IntermediateOutput, FoldLeft, MapThenFoldSet
<1>3. \A n \in N : n \in S <=> is_forward(g, n)
  BY <1>1
<1>4. crossing \in Seq(N)
  BY <1>1, NodesByType
<1> HIDE DEF S, C, crossing
<1>5. s \in Seq(N) /\ ToSet(s) = N \cap S
  BY <1>1, SortedNodes
<1> HIDE DEF s
<1>6. /\ PartOf(g, fwd) /\ ToSet(fwd.nodes) \subseteq ToSet(s)
      /\ \A i \in 1..Len(s) : s[i] \in ToSet(fwd.nodes)
  BY <1>1, <1>5, CloneAllIs
<1> HIDE DEF fwd
<1>7. Loose(fwd)
  BY <1>6, SoundIs DEF PartOf, Sound, Loose
<1>8. /\ Extended(crossing, fwd, both)
      /\ \A i \in 1..Len(crossing) : Intermediate(crossing[i]) \in DOMAIN both.node
  BY <1>1, <1>4, <1>7, IntermediatesAre
<1> HIDE DEF both
<1>9. /\ f.nodes = both.nodes /\ f.inputs = inputs /\ f.outputs = g.outputs \o added
      /\ DOMAIN f.node = DOMAIN both.node
  <2> DEFINE node == MarkIntermediates(g, both.node)
             outputs == g.outputs \o added
  <2>1. both = [nodes |-> both.nodes, node |-> both.node, operands |-> both.operands, loopback |-> both.loopback,
                inputs |-> both.inputs, outputs |-> both.outputs]
    BY <1>8 DEF Extended, Loose, AllGraphs
  <2>2. DOMAIN node = DOMAIN both.node
    BY DEF MarkIntermediates
  <2> HIDE DEF node, outputs, inputs
  <2>3. f = [both EXCEPT !.inputs = inputs, !.outputs = outputs, !.node = node]
    BY <1>2 DEF Marked, node, outputs
  <2>4. f = [nodes |-> both.nodes, node |-> node, operands |-> both.operands, loopback |-> both.loopback,
             inputs |-> inputs, outputs |-> outputs]
    BY <2>1, <2>3
  <2>5. f.nodes = both.nodes /\ f.inputs = inputs /\ f.outputs = outputs /\ f.node = node
    BY <2>4
  <2> QED BY <2>2, <2>5 DEF outputs
<1>10. f.nodes \in Seq(Names) /\ DOMAIN f.node = ToSet(f.nodes)
  BY <1>8, <1>9 DEF Extended, Loose, AllGraphs
<1>11. \A x \in ToSet(f.nodes) : ForwardName(g, x)
  <2>1. ToSet(crossing) \subseteq N
    BY <1>4, SeqElements
  <2> QED BY <2>1, <1>3, <1>5, <1>6, <1>7, <1>8, <1>9, <1>10 DEF Extended, ForwardName, Loose
<1>12. /\ DOMAIN crossing = 1..Len(crossing) /\ Len(crossing) \in Nat
       /\ \A i \in 1..Len(crossing) : crossing[i] \in N
  BY <1>4, SeqElements
<1>13. \A o \in ToSet(g.outputs) : o \in ToSet(f.nodes)
  <2> SUFFICES ASSUME NEW o \in ToSet(g.outputs) PROVE o \in ToSet(f.nodes)
    OBVIOUS
  <2>1. o \in N /\ is_forward(g, o)
    BY DEF Plain, Returns
  <2>2. o \in ToSet(s)
    BY <1>3, <1>5, <2>1
  <2>3. ToSet(s) = {s[i] : i \in 1..Len(s)}
    BY <1>5, SeqElements
  <2>4. o \in DOMAIN fwd.node
    BY <1>6, <1>7, <2>2, <2>3 DEF Loose
  <2> QED BY <1>8, <1>9, <1>10, <2>4 DEF Extended
<1>14. added \in Seq(ToSet(f.nodes)) /\ \A x \in ToSet(added) : \E n \in N : x = Intermediate(n)
  <2>1. added = [i \in 1..Len(crossing) |-> Intermediate(crossing[i])]
    BY <1>12
  <2> HIDE DEF added
  <2>2. \A i \in 1..Len(crossing) : Intermediate(crossing[i]) \in ToSet(f.nodes)
    BY <1>8, <1>9, <1>10
  <2>3. added \in Seq(ToSet(f.nodes)) /\ Len(added) = Len(crossing)
    BY <1>12, <2>1, <2>2
  <2>4. ToSet(added) = {added[i] : i \in 1..Len(crossing)}
    BY <2>3, SeqElements
  <2>5. \A i \in 1..Len(crossing) : added[i] = Intermediate(crossing[i])
    BY <2>1
  <2>6. \A x \in ToSet(added) : \E n \in N : x = Intermediate(n)
    BY <1>12, <2>4, <2>5
  <2> QED BY <2>3, <2>6
<1>15. g.outputs \in Seq(ToSet(f.nodes))
  BY <1>1, <1>13, SeqLarger
<1> HIDE DEF added
<1>16. f.outputs \in Seq(ToSet(f.nodes)) /\ ToSet(f.outputs) = ToSet(g.outputs) \cup ToSet(added)
  <2> DEFINE a == g.outputs
             M == ToSet(f.nodes)
  <2>1. a \in Seq(M) /\ added \in Seq(M)
    BY <1>14, <1>15
  <2> HIDE DEF a, M
  <2>2. a \o added \in Seq(M) /\ ToSet(a \o added) = ToSet(a) \cup ToSet(added)
    BY <2>1, SeqConcat
  <2> QED BY <1>9, <2>2 DEF a, M
<1>17. \A x \in ToSet(f.outputs) : ForwardOutput(g, x)
  BY <1>14, <1>16 DEF ForwardOutput
<1> QED BY <1>9, <1>10, <1>11, <1>16, <1>17 DEF ForwardOf, S

(* What is new in c are the nodes of t, all of them.                       *)
InputsAdded(base, c, t, node) ==
  /\ Loose(c) /\ DOMAIN base.node \subseteq DOMAIN c.node
  /\ \A x \in DOMAIN base.node : c.node[x] = base.node[x]
  /\ \A x \in DOMAIN c.node : x \in DOMAIN base.node \/ (x \in ToSet(t) /\ c.node[x] = node[x])
  /\ \A x \in ToSet(t) : x \in DOMAIN c.node

(* add_inputs adds the inputs the graph has not yet.                       *)
LEMMA InputsAre ==
  ASSUME NEW base, Loose(base), NEW t \in Seq(Names), NEW node, \A x \in ToSet(t) : node[x] \in NodeRecords
  PROVE  InputsAdded(base, add_inputs(base, t, node), t, node)
<1> DEFINE L == Len(t)
           Same(h) == /\ Loose(h) /\ DOMAIN base.node \subseteq DOMAIN h.node
                      /\ \A x \in DOMAIN base.node : h.node[x] = base.node[x]
                      /\ \A x \in DOMAIN h.node : x \in DOMAIN base.node \/ (x \in ToSet(t) /\ h.node[x] = node[x])
           X == {h \in AllGraphs : Same(h)}
           T == [k \in 0..L |-> {h \in X : \A i \in 1..k : t[i] \in DOMAIN h.node}]
           step == [i \in 1..L |-> [h \in X |-> add_node(h, t[i], node[t[i]], <<>>)]]
           c == add_inputs(base, t, node)
<1>1. L \in Nat /\ (\A i \in 1..L : t[i] \in ToSet(t) /\ t[i] \in Names) /\ ToSet(t) = {t[i] : i \in 1..L}
  BY SeqElements
<1>2. base \in X
  BY DEF Loose
<1>3. base \in T[0]
  <2> HIDE DEF X
  <2> QED BY <1>1, <1>2
<1>4. ASSUME NEW n \in ToSet(t), n \in Names, NEW h \in X, NEW new, new = add_node(h, n, node[n], <<>>)
      PROVE  new \in X /\ DOMAIN new.node = DOMAIN h.node \cup {n}
  <2>1. <<>> \in Seq(Names) /\ node[n] \in NodeRecords /\ Same(h)
    OBVIOUS
  <2> DEFINE rec == node[n]
  <2> HIDE DEF Same, rec
  <2>2. AddedTo(h, new, n, rec, <<>>)
    <3>1. Loose(h)
      BY <2>1 DEF Same
    <3> QED BY <1>4, <2>1, <3>1, AddToLoose DEF rec
  <2>3. Same(new)
    BY <2>1, <2>2 DEF Same, AddedTo, rec
  <2> QED BY <2>2, <2>3 DEF AddedTo, Loose
<1>5. ASSUME NEW i \in 1..L, NEW h \in X
      PROVE  step[i][h] \in X /\ DOMAIN step[i][h].node = DOMAIN h.node \cup {t[i]}
  <2>1. step[i][h] = add_node(h, t[i], node[t[i]], <<>>)
    <3> HIDE DEF X
    <3> QED OBVIOUS
  <2> DEFINE n == t[i]
             new == step[i][h]
  <2>2. n \in ToSet(t) /\ n \in Names /\ new = add_node(h, n, node[n], <<>>)
    BY <1>1, <2>1
  <2> HIDE DEF n, new, step, X
  <2>3. new \in X /\ DOMAIN new.node = DOMAIN h.node \cup {n}
    BY <1>4, <2>2
  <2> QED BY <2>3 DEF n, new
<1>6. ASSUME NEW i \in 1..L, NEW h \in T[i - 1] PROVE step[i][h] \in T[i]
  <2> HIDE DEF X
  <2>1. i - 1 \in 0..L /\ i \in 0..L
    BY <1>1
  <2>2. h \in X /\ \A j \in 1..(i - 1) : t[j] \in DOMAIN h.node
    BY <2>1
  <2> DEFINE new == step[i][h]
  <2>3. new \in X /\ DOMAIN new.node = DOMAIN h.node \cup {t[i]}
    BY <1>5, <2>2
  <2> HIDE DEF new, step
  <2>4. \A j \in 1..i : t[j] \in DOMAIN new.node
    <3>1. \A j \in 1..i : j = i \/ j \in 1..(i - 1)
      BY <1>1
    <3> QED BY <2>2, <2>3, <3>1
  <2> QED BY <2>1, <2>3, <2>4 DEF new
<1> HIDE DEF Same
<1>7. \A k \in 0..L : T[k] \subseteq X
  OBVIOUS
<1>8. PrefixHyp(L, X, T, base, step)
  <2> HIDE DEF L, X, T, step
  <2> QED BY <1>3, <1>5, <1>6, <1>7 DEF PrefixHyp
<1> DEFINE U == UpTo(L, X, T)
<1>9. FoldHyp(L, U, base, step) /\ U[1..L] \subseteq T[L]
  <2> HIDE DEF L, X, T, step
  <2> QED BY <1>1, <1>8, PrefixFold
<1>10. \A A \in SUBSET (1..L) : U[A] \subseteq X
  <2> HIDE DEF L, X, T
  <2> QED BY DEF UpTo
<1>11. c \in U[1..L]
  <2>1. FoldHyp(Len(t), U, base, [i \in 1..Len(t) |-> [h \in X |-> add_node(h, t[i], node[t[i]], <<>>)]])
    BY <1>9
  <2>2. \A A \in SUBSET (1..Len(t)) : U[A] \subseteq X
    BY <1>10
  <2> HIDE DEF U, X, step
  <2> QED BY <2>1, <2>2, InputsFold
<1>12. c \in T[L]
  <2> HIDE DEF U, T, c
  <2> QED BY <1>9, <1>11
<1>13. L \in 0..L
  BY <1>1
<1>14. c \in X /\ \A i \in 1..L : t[i] \in DOMAIN c.node
  <2> HIDE DEF c, L, X
  <2> QED BY <1>12, <1>13
<1>15. Same(c)
  BY <1>14
<1>16. \A x \in ToSet(t) : x \in DOMAIN c.node
  BY <1>1, <1>14
<1> HIDE DEF c
<1> QED BY <1>15, <1>16 DEF Same, InputsAdded, c

(* What the nodes of the backward graph are; C: those that cross.          *)
BackwardRec(g, C, x, r) ==
  \/ x \in C /\ r.kind = "Activation"
  \/ /\ x \notin C /\ x \in ToSet(g.nodes) /\ r = g.node[x]
     /\ is_backward(g, x) \/ (is_forward(g, x) /\ g.node[x].type = "Input")
  \/ \E n \in ToSet(g.nodes) : x = GradAccumulator(n)
BackwardPart(g, C, h) ==
  /\ Loose(h) /\ C \subseteq DOMAIN h.node
  /\ \A x \in DOMAIN h.node : BackwardRec(g, C, x, h.node[x])

(* What a backward node reads are names.                                   *)
LEMMA BackwardOperandsAre ==
  ASSUME NEW fwd, fwd.nodes \in Seq(Names), NEW new, NEW s \in Seq(Names)
  PROVE  FlattenSeq([i \in DOMAIN s |-> BackwardOperand(fwd, new, s[i])]) \in Seq(Names)
<1>1. ASSUME NEW m \in Names PROVE BackwardOperand(fwd, new, m) \in Seq(Names)
  <2>1. <<m>> \in Seq(Names) /\ <<>> \in Seq(Names)
    OBVIOUS
  <2>2. data_users(fwd, m) \in Seq(Names)
    BY OnlyElements DEF data_users
  <2>3. Only(data_users(fwd, m), {u \in DOMAIN fwd.node : fwd.node[u].type = "Output"} \cap DOMAIN new.node)
        \in Seq(Names)
    BY <2>2, OnlyElements
  <2> QED BY <2>1, <2>3 DEF BackwardOperand
<1>2. DOMAIN s = 1..Len(s) /\ Len(s) \in Nat /\ \A i \in 1..Len(s) : s[i] \in Names
  OBVIOUS
<1> DEFINE u == [i \in 1..Len(s) |-> BackwardOperand(fwd, new, s[i])]
<1>3. u \in Seq(Seq(Names))
  BY <1>1, <1>2
<1>4. u = [i \in DOMAIN s |-> BackwardOperand(fwd, new, s[i])]
  BY <1>2
<1> HIDE DEF u
<1> QED BY <1>3, <1>4, FlattenIs

(* One backward node more.                                                 *)
LEMMA AddBackwardIs ==
  ASSUME NEW g, Sound(g), NEW C, NEW fwd, fwd.nodes \in Seq(Names),
         NEW h, BackwardPart(g, C, h), NEW n \in ToSet(g.nodes), is_backward(g, n),
         NEW new, new = AddBackward(g, fwd, h, n)
  PROVE  /\ BackwardPart(g, C, new) /\ DOMAIN h.node \subseteq DOMAIN new.node
         /\ g.node[n].type # "Queue" => n \in DOMAIN new.node
<1>1. n \in Names /\ g.node[n] \in NodeRecords /\ Loose(h) /\ g.operands[n] \in Seq(Names)
  <2>1. g.operands[n] \in Seq(ToSet(g.nodes)) /\ ToSet(g.nodes) \subseteq Names
    BY SoundIs, SoundOperands
  <2> DEFINE N == ToSet(g.nodes)
             s == g.operands[n]
  <2>2. s \in Seq(N) /\ N \subseteq Names
    BY <2>1
  <2> HIDE DEF N, s
  <2>3. s \in Seq(Names)
    BY <2>2
  <2> QED BY <2>3, SoundIs DEF BackwardPart, s
<1>2. CASE g.node[n].type = "Queue"
  <2> DEFINE name == GradAccumulator(n)
             rec == Node("Output", "none", "Forward")
             ops == g.operands[n]
  <2>1. name \in Names
    <3>1. "grad_accumulator" \in Tags
      BY DEF Tags
    <3> QED BY <1>1, <3>1, SuffixedIs DEF GradAccumulator
  <2>2. rec \in NodeRecords
    <3>1. "Output" \in NodeTypes /\ "none" \in Kinds /\ "Forward" \in Epochs
      BY DEF NodeTypes, Kinds, Epochs
    <3> QED BY <3>1, NodeRecord
  <2>3. new = add_node(h, name, rec, ops)
    BY <1>2 DEF AddBackward
  <2> HIDE DEF name, rec, ops
  <2>4. AddedTo(h, new, name, rec, ops)
    BY <1>1, <2>1, <2>2, <2>3, AddToLoose DEF ops
  <2>5. ASSUME NEW x \in DOMAIN new.node PROVE BackwardRec(g, C, x, new.node[x])
    <3>1. CASE x \in DOMAIN h.node
      BY <2>4, <3>1 DEF AddedTo, BackwardPart
    <3>2. CASE x = name
      BY <3>2 DEF BackwardRec, name
    <3> QED BY <2>4, <3>1, <3>2 DEF AddedTo
  <2> QED BY <1>2, <2>4, <2>5 DEF AddedTo, BackwardPart
<1>3. CASE g.node[n].type # "Queue"
  <2> DEFINE rec == g.node[n]
             ops == FlattenSeq([i \in DOMAIN g.operands[n] |-> BackwardOperand(fwd, h, g.operands[n][i])])
  <2>1. ops \in Seq(Names)
    BY <1>1, BackwardOperandsAre
  <2>2. new = add_node(h, n, rec, ops)
    BY <1>3 DEF AddBackward
  <2> HIDE DEF rec, ops
  <2>3. AddedTo(h, new, n, rec, ops)
    BY <1>1, <2>1, <2>2, AddToLoose DEF rec
  <2>4. ASSUME NEW x \in DOMAIN new.node PROVE BackwardRec(g, C, x, new.node[x])
    <3>1. CASE x \in DOMAIN h.node
      BY <2>3, <3>1 DEF AddedTo, BackwardPart
    <3>2. CASE x = n /\ x \notin DOMAIN h.node
      <4>1. new.node[x] = rec /\ x \notin C
        BY <2>3, <3>2 DEF AddedTo, BackwardPart
      <4> QED BY <3>2, <4>1 DEF BackwardRec, rec
    <3> QED BY <2>3, <3>1, <3>2 DEF AddedTo
  <2> QED BY <2>3, <2>4 DEF AddedTo, BackwardPart
<1> QED BY <1>2, <1>3

(* The backward nodes are all added, but the gradient accumulators.        *)
LEMMA BackwardNodesAre ==
  ASSUME NEW g, Sound(g), NEW C, NEW fwd, fwd.nodes \in Seq(Names), NEW base, BackwardPart(g, C, base),
         NEW s \in Seq(ToSet(g.nodes)), \A n \in ToSet(s) : is_backward(g, n)
  PROVE  /\ BackwardPart(g, C, AddAllBackward(g, fwd, base, s))
         /\ DOMAIN base.node \subseteq DOMAIN AddAllBackward(g, fwd, base, s).node
         /\ \A n \in ToSet(s) : g.node[n].type # "Queue" => n \in DOMAIN AddAllBackward(g, fwd, base, s).node
<1> DEFINE L == Len(s)
           Same(h) == BackwardPart(g, C, h) /\ DOMAIN base.node \subseteq DOMAIN h.node
           X == {h \in AllGraphs : Same(h)}
           There(i, h) == g.node[s[i]].type # "Queue" => s[i] \in DOMAIN h.node
           T == [k \in 0..L |-> {h \in X : \A i \in 1..k : There(i, h)}]
           step == [i \in 1..L |-> [t \in X |-> AddBackward(g, fwd, t, s[i])]]
           c == AddAllBackward(g, fwd, base, s)
<1>1. L \in Nat /\ ToSet(s) = {s[i] : i \in 1..L} /\ \A i \in 1..L : s[i] \in ToSet(g.nodes) /\ is_backward(g, s[i])
  BY SeqElements
<1>2. base \in X
  BY DEF BackwardPart, Loose
<1>3. base \in T[0]
  <2> HIDE DEF X, There
  <2> QED BY <1>1, <1>2
<1>4. ASSUME NEW i \in 1..L, NEW h \in X
      PROVE  step[i][h] \in X /\ DOMAIN h.node \subseteq DOMAIN step[i][h].node /\ There(i, step[i][h])
  <2>1. step[i][h] = AddBackward(g, fwd, h, s[i]) /\ Same(h)
    <3> HIDE DEF Same
    <3> QED OBVIOUS
  <2> DEFINE n == s[i]
             new == step[i][h]
  <2>2. n \in ToSet(g.nodes) /\ is_backward(g, n) /\ new = AddBackward(g, fwd, h, n) /\ BackwardPart(g, C, h)
    BY <1>1, <2>1
  <2> HIDE DEF n, new, step
  <2>3. /\ BackwardPart(g, C, new) /\ DOMAIN h.node \subseteq DOMAIN new.node
        /\ g.node[n].type # "Queue" => n \in DOMAIN new.node
    BY <2>2, AddBackwardIs
  <2>4. new \in X
    BY <2>1, <2>3 DEF BackwardPart, Loose
  <2> HIDE DEF X
  <2> QED BY <2>3, <2>4 DEF n, new
<1>5. ASSUME NEW i \in 1..L, NEW h \in T[i - 1] PROVE step[i][h] \in T[i]
  <2> HIDE DEF X, There
  <2>1. i - 1 \in 0..L /\ i \in 0..L
    BY <1>1
  <2>2. h \in X /\ \A j \in 1..(i - 1) : There(j, h)
    BY <2>1
  <2> DEFINE new == step[i][h]
  <2>3. new \in X /\ DOMAIN h.node \subseteq DOMAIN new.node /\ There(i, new)
    BY <1>4, <2>2
  <2> HIDE DEF new, step
  <2>4. \A j \in 1..i : There(j, new)
    <3>1. \A j \in 1..i : j = i \/ j \in 1..(i - 1)
      BY <1>1
    <3>2. \A j \in 1..(i - 1) : There(j, new)
      BY <2>2, <2>3 DEF There
    <3> QED BY <2>3, <3>1, <3>2
  <2> QED BY <2>1, <2>3, <2>4 DEF new
<1>6. \A k \in 0..L : T[k] \subseteq X
  <2> HIDE DEF X, There
  <2> QED OBVIOUS
<1>7. PrefixHyp(L, X, T, base, step)
  <2> HIDE DEF L, X, T, step, There
  <2> QED BY <1>3, <1>4, <1>5, <1>6 DEF PrefixHyp
<1> DEFINE U == UpTo(L, X, T)
<1>8. FoldHyp(L, U, base, step) /\ U[1..L] \subseteq T[L]
  <2> HIDE DEF L, X, T, step
  <2> QED BY <1>1, <1>7, PrefixFold
<1>9. \A A \in SUBSET (1..L) : U[A] \subseteq X
  <2> HIDE DEF L, X, T
  <2> QED BY DEF UpTo
<1>10. c \in U[1..L]
  <2>1. FoldHyp(Len(s), U, base, [i \in 1..Len(s) |-> [t \in X |-> AddBackward(g, fwd, t, s[i])]])
    BY <1>8
  <2>2. \A A \in SUBSET (1..Len(s)) : U[A] \subseteq X
    BY <1>9
  <2> HIDE DEF U, X, step
  <2> QED BY <2>1, <2>2, BackwardFold
<1>11. c \in T[L]
  <2> HIDE DEF U, T, c
  <2> QED BY <1>8, <1>10
<1>12. L \in 0..L
  BY <1>1
<1>13. c \in X /\ \A i \in 1..L : There(i, c)
  <2> HIDE DEF c, L, X, There
  <2> QED BY <1>11, <1>12
<1> HIDE DEF c, L
<1>14. \A i \in 1..L : g.node[s[i]].type # "Queue" => s[i] \in DOMAIN c.node
  BY <1>13
<1>15. BackwardPart(g, C, c) /\ DOMAIN base.node \subseteq DOMAIN c.node
  BY <1>13
<1> QED BY <1>1, <1>14, <1>15 DEF c

(* What is known of the backward graph.                                    *)
BackwardOf(g, f, b) ==
  /\ b.inputs = BackwardInputs(g, f, b)
  /\ ToSet(ordered_intermediates(f)) \subseteq DOMAIN b.node
  /\ \A x \in DOMAIN b.node : BackwardRec(g, ToSet(ordered_intermediates(f)), x, b.node[x])
  /\ \A n \in ToSet(g.nodes) : is_backward(g, n) /\ g.node[n].type # "Queue" => n \in DOMAIN b.node

(* extract_backward_graph makes such a graph.                              *)
LEMMA BackwardGraphIs ==
  ASSUME NEW g, Sound(g), NEW f, ForwardOf(g, f), NEW b, b = extract_backward_graph(g, f)
  PROVE  BackwardOf(g, f, b)
<1> DEFINE t == ordered_intermediates(f)
           C == ToSet(t)
           one == CrossedInputs(f)
           two == g.node
           crossed == add_inputs(EmptyGraph, t, one)
           s == SharedInputs(g)
           shared == add_inputs(crossed, s, two)
           S == {n \in DOMAIN g.node : is_backward(g, n)}
           u == Only(topological_sort(g), S)
           bwd == AddAllBackward(g, f, shared, u)
<1>1. /\ DOMAIN g.node = ToSet(g.nodes) /\ ToSet(g.nodes) \subseteq Names
      /\ \A n \in ToSet(g.nodes) : g.node[n] \in NodeRecords
  BY SoundIs
<1>2. f.nodes \in Seq(Names) /\ DOMAIN f.node = ToSet(f.nodes)
  BY DEF ForwardOf
<1>3. t \in Seq(Names) /\ C \subseteq ToSet(f.nodes)
  BY <1>2, OnlyElements DEF ordered_intermediates
<1>4. \A x \in C : one[x] = Node("Input", "Activation", "Forward")
  <2> HIDE DEF t
  <2> QED BY <1>2, <1>3 DEF CrossedInputs
<1>5. \A x \in C : one[x] \in NodeRecords /\ one[x].kind = "Activation"
  <2>1. "Input" \in NodeTypes /\ "Activation" \in Kinds /\ "Forward" \in Epochs
    BY DEF NodeTypes, Kinds, Epochs
  <2> DEFINE rec == Node("Input", "Activation", "Forward")
  <2>2. rec \in NodeRecords /\ rec.kind = "Activation"
    BY <2>1, NodeRecord DEF Node
  <2> HIDE DEF rec, one, t
  <2> QED BY <1>4, <2>2 DEF rec
<1> HIDE DEF t, one
<1>6. InputsAdded(EmptyGraph, crossed, t, one)
  BY <1>3, <1>5, EmptyIsLoose, InputsAre
<1> HIDE DEF crossed
<1>7. Loose(crossed) /\ DOMAIN crossed.node = C /\ \A x \in C : crossed.node[x].kind = "Activation"
  BY <1>5, <1>6, EmptyIsLoose DEF InputsAdded
<1>8. /\ s \in Seq(Names)
      /\ \A x \in ToSet(s) : x \in ToSet(g.nodes) /\ is_forward(g, x) /\ g.node[x].type = "Input"
  <2> DEFINE N == ToSet(g.nodes)
             I == {n \in DOMAIN g.node : g.node[n].type = "Input"}
             F == {n \in DOMAIN g.node : is_forward(g, n) /\ has_users_in_bwd(g, n)}
             a == Only(g.nodes, I)
  <2>1. a \in Seq(N) /\ ToSet(a) = N \cap I
    BY NodesByType
  <2> HIDE DEF a
  <2>2. Only(a, F) \in Seq(N) /\ ToSet(Only(a, F)) = ToSet(a) \cap F
    BY <2>1, OnlyElements
  <2>3. s = Only(a, F)
    BY DEF SharedInputs, nodes_by_type, a
  <2> HIDE DEF s, N
  <2>4. s \in Seq(Names)
    <3>1. N \subseteq Names /\ s \in Seq(N)
      BY <1>1, <2>2, <2>3 DEF N
    <3> QED BY <3>1
  <2> QED BY <2>1, <2>2, <2>3, <2>4 DEF N
<1> HIDE DEF s
<1>9. InputsAdded(crossed, shared, s, two)
  <2>1. \A x \in ToSet(s) : two[x] \in NodeRecords
    BY <1>1, <1>8
  <2> HIDE DEF two
  <2> QED BY <1>7, <1>8, <2>1, InputsAre
<1> HIDE DEF shared
<1>10. BackwardPart(g, C, shared)
  <2>1. ASSUME NEW x \in DOMAIN shared.node PROVE BackwardRec(g, C, x, shared.node[x])
    <3>1. CASE x \in C
      BY <1>7, <1>9, <3>1 DEF InputsAdded, BackwardRec
    <3>2. CASE x \notin C
      BY <1>7, <1>8, <1>9, <3>2 DEF InputsAdded, BackwardRec
    <3> QED BY <3>1, <3>2
  <2> QED BY <1>7, <1>9, <2>1 DEF InputsAdded, BackwardPart
<1> HIDE DEF C
<1>11. u \in Seq(ToSet(g.nodes)) /\ ToSet(u) = ToSet(g.nodes) \cap S
  BY SortedNodes
<1>12. \A n \in ToSet(u) : is_backward(g, n)
  <2> HIDE DEF u
  <2> QED BY <1>11
<1> HIDE DEF u
<1>13. /\ BackwardPart(g, C, bwd) /\ DOMAIN shared.node \subseteq DOMAIN bwd.node
       /\ \A n \in ToSet(u) : g.node[n].type # "Queue" => n \in DOMAIN bwd.node
  BY <1>2, <1>10, <1>11, <1>12, BackwardNodesAre
<1>14. b = [bwd EXCEPT !.inputs = BackwardInputs(g, f, bwd), !.outputs = nodes_by_type(bwd, "Output")]
  BY DEF extract_backward_graph, AddAllBackward, crossed, shared, s, t, one, u, FoldLeft, MapThenFoldSet
<1> HIDE DEF bwd
<1>15. b.node = bwd.node /\ b.inputs = BackwardInputs(g, f, bwd)
  <2> DEFINE inputs == BackwardInputs(g, f, bwd)
             outputs == nodes_by_type(bwd, "Output")
  <2>1. bwd = [nodes |-> bwd.nodes, node |-> bwd.node, operands |-> bwd.operands, loopback |-> bwd.loopback,
               inputs |-> bwd.inputs, outputs |-> bwd.outputs]
    BY <1>13 DEF BackwardPart, Loose, AllGraphs
  <2>2. b = [bwd EXCEPT !.inputs = inputs, !.outputs = outputs]
    BY <1>14
  <2> HIDE DEF inputs, outputs
  <2>3. b = [nodes |-> bwd.nodes, node |-> bwd.node, operands |-> bwd.operands, loopback |-> bwd.loopback,
             inputs |-> inputs, outputs |-> outputs]
    BY <2>1, <2>2
  <2>4. b.node = bwd.node /\ b.inputs = inputs
    BY <2>3
  <2> QED BY <2>4 DEF inputs
<1>16. BackwardInputs(g, f, bwd) = BackwardInputs(g, f, b)
  BY <1>15 DEF BackwardInputs
<1>17. \A n \in ToSet(g.nodes) : is_backward(g, n) /\ g.node[n].type # "Queue" => n \in DOMAIN b.node
  BY <1>1, <1>11, <1>13, <1>15
<1>18. C = ToSet(ordered_intermediates(f))
  BY DEF C, t
<1> QED BY <1>13, <1>15, <1>16, <1>17, <1>18 DEF BackwardOf, BackwardPart

-----------------------------------------------------------------------------
(* The tensors that backward is called with.                               *)

(* The names of the outputs that splitting adds are new, and differ.       *)
LEMMA NewNames ==
  ASSUME NEW g, Plain(g), NEW n \in ToSet(g.nodes), NEW m \in ToSet(g.nodes)
  PROVE  /\ GradAccumulator(n) \notin ToSet(g.nodes) /\ Intermediate(n) \notin ToSet(g.nodes)
         /\ Intermediate(n) # GradAccumulator(m)
<1>1. n \in Names /\ m \in Names /\ "grad_accumulator" \in Tags /\ "intermediate" \in Tags
  BY SoundIs DEF Plain, Tags
<1>2. /\ GradAccumulator(n)[2] # <<>> /\ Last(GradAccumulator(n)[2]) = "grad_accumulator"
      /\ Last(GradAccumulator(m)[2]) = "grad_accumulator"
      /\ Intermediate(n)[2] # <<>> /\ Last(Intermediate(n)[2]) = "intermediate"
  BY <1>1, SuffixedIs DEF GradAccumulator, Intermediate
<1>3. \A x \in ToSet(g.nodes) : x[2] = <<>> \/ Last(x[2]) \in {"lr", "mean", "recompute"}
  BY DEF Plain, NameGood
<1>4. GradAccumulator(n) \notin ToSet(g.nodes)
  <2> DEFINE x == GradAccumulator(n)
  <2> HIDE DEF x
  <2> QED BY <1>2, <1>3 DEF x
<1>5. Intermediate(n) \notin ToSet(g.nodes)
  <2> DEFINE x == Intermediate(n)
  <2> HIDE DEF x
  <2> QED BY <1>2, <1>3 DEF x
<1> QED BY <1>2, <1>4, <1>5

(* What is known of a graph that is split, and of what becomes of it.      *)
SplitOf(g, f, b) == Plain(g) /\ ForwardOf(g, f) /\ BackwardOf(g, f, b)

(* The three parts of backward's inputs: the gradients of the outputs, the *)
(* intermediate results, and inputs of forward.                            *)
GradientPart(g) == Only(ordered_module_inputs(g), {n \in DOMAIN g.node : is_backward(g, n)})
CrossingPart(f, b) == Only(f.outputs, DOMAIN b.node)
ForwardPart(g, b) == Only(ordered_module_inputs(g), {n \in DOMAIN g.node : is_forward(g, n)} \cap DOMAIN b.node)

(* A node of the backward graph that forward has too is an input.          *)
LEMMA WhatCrosses ==
  ASSUME NEW g, NEW f, NEW b, SplitOf(g, f, b), NEW x \in DOMAIN b.node,
         NEW C, C = ToSet(ordered_intermediates(f))
  PROVE  /\ x \in C => b.node[x].kind = "Activation" /\ ForwardName(g, x)
         /\ ForwardOutput(g, x) => x \in C
         /\ x \in ToSet(g.nodes) /\ x \notin C => b.node[x] = g.node[x]
<1>1. Plain(g) /\ BackwardRec(g, C, x, b.node[x])
  BY DEF SplitOf, BackwardOf
<1>2. \A y \in C : ForwardName(g, y)
  <2>1. C \subseteq ToSet(f.nodes)
    <3>1. f.nodes \in Seq(Names)
      BY DEF SplitOf, ForwardOf
    <3> QED BY <3>1, OnlyElements DEF ordered_intermediates
  <2> QED BY <2>1 DEF SplitOf, ForwardOf
<1>3. \A n, m \in ToSet(g.nodes) : GradAccumulator(n) \notin ToSet(g.nodes) /\ Intermediate(n) \notin ToSet(g.nodes)
                                   /\ Intermediate(n) # GradAccumulator(m)
  BY <1>1, NewNames
<1>4. ASSUME ForwardName(g, x) \/ ForwardOutput(g, x) \/ x \in ToSet(g.nodes)
      PROVE  ~\E n \in ToSet(g.nodes) : x = GradAccumulator(n)
  <2>1. \A o \in ToSet(g.outputs) : o \in ToSet(g.nodes)
    BY <1>1 DEF Plain, Returns
  <2>2. x \in ToSet(g.nodes) \/ \E n \in ToSet(g.nodes) : x = Intermediate(n)
    BY <1>4, <2>1 DEF ForwardName, ForwardOutput
  <2> QED BY <1>3, <2>2
<1>5. x \in C => b.node[x].kind = "Activation" /\ ForwardName(g, x)
  BY <1>1, <1>2, <1>4 DEF BackwardRec
<1>6. ASSUME ForwardOutput(g, x) PROVE x \in C
  <2>1. CASE x \in ToSet(g.outputs)
    <3>1. x \in ToSet(g.nodes) /\ is_forward(g, x) /\ g.node[x].type = "Output"
      BY <1>1, <2>1 DEF Plain, Returns
    <3>2. ~is_backward(g, x)
      BY <3>1 DEF is_forward, is_backward
    <3> QED BY <1>1, <1>4, <1>6, <3>1, <3>2 DEF BackwardRec
  <2>2. CASE \E n \in ToSet(g.nodes) : x = Intermediate(n)
    <3>1. x \notin ToSet(g.nodes)
      BY <1>3, <2>2
    <3> QED BY <1>1, <1>4, <1>6, <3>1 DEF BackwardRec
  <2> QED BY <1>6, <2>1, <2>2 DEF ForwardOutput
<1>7. x \in ToSet(g.nodes) /\ x \notin C => b.node[x] = g.node[x]
  BY <1>1, <1>4 DEF BackwardRec
<1> QED BY <1>5, <1>6, <1>7

(* The ordered inputs that have users.                                     *)
LEMMA OrderedInputs ==
  ASSUME NEW g, Plain(g)
  PROVE  /\ ordered_module_inputs(g) \in Seq(ToSet(g.nodes))
         /\ \A x \in ToSet(ordered_module_inputs(g)) : InputGood(g, x)
<1> DEFINE S == {n \in DOMAIN g.node : data_users(g, n) # <<>>}
           s == Only(g.inputs, S)
<1>1. g.inputs \in Seq(Names) /\ DOMAIN g.node = ToSet(g.nodes)
  BY SoundIs DEF Plain
<1>2. s \in Seq(Names) /\ ToSet(s) = ToSet(g.inputs) \cap S
  BY <1>1, OnlyElements
<1>3. ToSet(s) \subseteq ToSet(g.nodes) /\ \A x \in ToSet(s) : InputGood(g, x)
  <2> HIDE DEF s
  <2> QED BY <1>1, <1>2 DEF Plain
<1>4. s \in Seq(ToSet(g.nodes))
  <2> HIDE DEF s
  <2> QED BY <1>2, <1>3, SeqLarger
<1> QED BY <1>3, <1>4 DEF ordered_module_inputs

(* The parts are sequences, with these elements.                           *)
LEMMA BackwardParts ==
  ASSUME NEW g, NEW f, NEW b, SplitOf(g, f, b)
  PROVE  /\ GradientPart(g) \in Seq(Names) /\ CrossingPart(f, b) \in Seq(Names) /\ ForwardPart(g, b) \in Seq(Names)
         /\ b.inputs = GradientPart(g) \o CrossingPart(f, b) \o ForwardPart(g, b)
         /\ \A x : x \in ToSet(GradientPart(g)) <=> x \in ToSet(ordered_module_inputs(g)) /\ is_backward(g, x)
         /\ \A x : x \in ToSet(CrossingPart(f, b)) <=> x \in ToSet(f.outputs) /\ x \in DOMAIN b.node
         /\ \A x : x \in ToSet(ForwardPart(g, b)) <=>
                     x \in ToSet(ordered_module_inputs(g)) /\ is_forward(g, x) /\ x \in DOMAIN b.node
<1> DEFINE N == ToSet(g.nodes)
           s == ordered_module_inputs(g)
           B == {n \in DOMAIN g.node : is_backward(g, n)}
           F == {n \in DOMAIN g.node : is_forward(g, n)}
           D == DOMAIN b.node
<1>1. Plain(g) /\ ForwardOf(g, f) /\ BackwardOf(g, f, b)
  BY DEF SplitOf
<1>2. N \subseteq Names /\ DOMAIN g.node = N
  BY <1>1, SoundIs DEF Plain
<1>3. s \in Seq(Names) /\ ToSet(s) \subseteq N
  <2>1. s \in Seq(N)
    BY <1>1, OrderedInputs
  <2> HIDE DEF s, N
  <2>2. ToSet(s) \subseteq N
    BY <2>1, SeqElements
  <2> QED BY <1>2, <2>1, <2>2
<1>4. f.outputs \in Seq(Names)
  <2> DEFINE M == ToSet(f.nodes)
  <2>1. f.outputs \in Seq(M) /\ M \subseteq Names
    BY <1>1, SeqElements DEF ForwardOf
  <2> HIDE DEF M
  <2> QED BY <2>1
<1> HIDE DEF s
<1>5. /\ Only(s, B) \in Seq(Names) /\ ToSet(Only(s, B)) = ToSet(s) \cap B
      /\ Only(f.outputs, D) \in Seq(Names) /\ ToSet(Only(f.outputs, D)) = ToSet(f.outputs) \cap D
      /\ Only(s, F \cap D) \in Seq(Names) /\ ToSet(Only(s, F \cap D)) = ToSet(s) \cap (F \cap D)
  <2> HIDE DEF B, F, D
  <2> QED BY <1>3, <1>4, OnlyElements
<1>6. GradientPart(g) = Only(s, B) /\ CrossingPart(f, b) = Only(f.outputs, D) /\ ForwardPart(g, b) = Only(s, F \cap D)
  BY DEF GradientPart, CrossingPart, ForwardPart, s
<1>7. b.inputs = Only(s, B) \o Only(f.outputs, D) \o Only(s, F \cap D)
  BY <1>1 DEF BackwardOf, BackwardInputs, s
<1>8. \A x \in ToSet(s) : (x \in B <=> is_backward(g, x)) /\ (x \in F <=> is_forward(g, x))
  BY <1>2, <1>3
<1>9. /\ \A x : x \in ToSet(GradientPart(g)) <=> x \in ToSet(s) /\ is_backward(g, x)
      /\ \A x : x \in ToSet(CrossingPart(f, b)) <=> x \in ToSet(f.outputs) /\ x \in D
      /\ \A x : x \in ToSet(ForwardPart(g, b)) <=> x \in ToSet(s) /\ is_forward(g, x) /\ x \in D
  <2> HIDE DEF B, F, D
  <2> QED BY <1>5, <1>6, <1>8
<1> QED BY <1>5, <1>6, <1>7, <1>9 DEF s

(* A function of the positions of a sequence is as long as the sequence.   *)
LEMMA AsLong ==
  ASSUME NEW X, NEW s \in Seq(X), NEW f, f = [i \in DOMAIN s |-> f[i]]
  PROVE  f \in Seq({f[i] : i \in DOMAIN s}) /\ Len(f) = Len(s)
<1> DEFINE k == Len(s)
<1>1. DOMAIN s = 1..k /\ k \in Nat
  BY SeqElements
<1> HIDE DEF k
<1>2. f \in [1..k -> {f[i] : i \in 1..k}]
  BY <1>1
<1> QED BY <1>1, <1>2 DEF k

(* The length of three sequences, one after the other.                     *)
LEMMA ThreeLengths ==
  ASSUME NEW A, NEW B, NEW C, NEW a \in Seq(A), NEW b \in Seq(B), NEW c \in Seq(C)
  PROVE  Len(a \o b \o c) = Len(a) + Len(b) + Len(c)
<1> DEFINE X == A \cup B \cup C
<1>1. a \in Seq(X) /\ b \in Seq(X) /\ c \in Seq(X)
  OBVIOUS
<1> HIDE DEF X
<1>2. a \o b \in Seq(X) /\ Len(a \o b) = Len(a) + Len(b)
  BY <1>1, ConcatProperties
<1> DEFINE d == a \o b
<1>3. d \in Seq(X)
  BY <1>2
<1> HIDE DEF d
<1>4. Len(d \o c) = Len(d) + Len(c)
  BY <1>1, <1>3, ConcatProperties
<1> QED BY <1>2, <1>4 DEF d

(* What backward takes for gradients of outputs are its own inputs.        *)
LEMMA GradientsOfOutputs ==
  ASSUME NEW g, NEW f, NEW b, SplitOf(g, f, b)
  PROVE  Only(b.inputs, {n \in DOMAIN b.node : b.node[n].kind = "Gradient"}) = GradientPart(g)
<1> DEFINE K == {n \in DOMAIN b.node : b.node[n].kind = "Gradient"}
           C == ToSet(ordered_intermediates(f))
           p == GradientPart(g)
           q == CrossingPart(f, b)
           r == ForwardPart(g, b)
           s == ordered_module_inputs(g)
<1>1. /\ p \in Seq(Names) /\ q \in Seq(Names) /\ r \in Seq(Names) /\ b.inputs = p \o q \o r
      /\ \A x : x \in ToSet(p) <=> x \in ToSet(s) /\ is_backward(g, x)
      /\ \A x : x \in ToSet(q) <=> x \in ToSet(f.outputs) /\ x \in DOMAIN b.node
      /\ \A x : x \in ToSet(r) <=> x \in ToSet(s) /\ is_forward(g, x) /\ x \in DOMAIN b.node
  BY BackwardParts
<1>2. \A x \in ToSet(s) : x \in ToSet(g.nodes) /\ InputGood(g, x)
  <2>1. Plain(g)
    BY DEF SplitOf
  <2> HIDE DEF s
  <2>2. s \in Seq(ToSet(g.nodes)) /\ \A x \in ToSet(s) : InputGood(g, x)
    BY <2>1, OrderedInputs DEF s
  <2> QED BY <2>2, SeqElements
<1> HIDE DEF C, p, q, r, s
<1>3. \A x \in DOMAIN b.node : /\ x \in C => b.node[x].kind = "Activation" /\ ForwardName(g, x)
                               /\ ForwardOutput(g, x) => x \in C
                               /\ x \in ToSet(g.nodes) /\ x \notin C => b.node[x] = g.node[x]
  BY WhatCrosses DEF C
<1>4. ASSUME NEW x \in ToSet(p) PROVE x \in K
  <2>1. x \in ToSet(g.nodes) /\ InputGood(g, x) /\ is_backward(g, x)
    BY <1>1, <1>2
  <2>2. g.node[x].type = "Input" /\ g.node[x].kind = "Gradient" /\ ~is_forward(g, x)
    BY <2>1 DEF InputGood, is_forward, is_backward
  <2>3. x \in DOMAIN b.node
    BY <2>1, <2>2 DEF SplitOf, BackwardOf
  <2>4. x \notin C
    <3>1. ~\E n \in ToSet(g.nodes) : x = Intermediate(n)
      BY <2>1, NewNames DEF SplitOf
    <3> QED BY <1>3, <2>2, <2>3, <3>1 DEF ForwardName
  <2> QED BY <1>3, <2>1, <2>2, <2>3, <2>4
<1>5. ASSUME NEW x \in ToSet(q) PROVE x \notin K
  <2>1. x \in DOMAIN b.node /\ ForwardOutput(g, x)
    <3>1. x \in DOMAIN b.node /\ x \in ToSet(f.outputs)
      BY <1>1
    <3> QED BY <3>1 DEF SplitOf, ForwardOf
  <2> QED BY <1>3, <2>1
<1>6. ASSUME NEW x \in ToSet(r) PROVE x \notin K
  <2>1. x \in ToSet(g.nodes) /\ InputGood(g, x) /\ is_forward(g, x) /\ x \in DOMAIN b.node
    BY <1>1, <1>2
  <2>2. g.node[x].kind = "Activation"
    BY <2>1 DEF InputGood, is_forward, is_backward
  <2> QED BY <1>3, <2>1, <2>2
<1> HIDE DEF K
<1>7. Only(p, K) = p /\ Only(q, K) = <<>> /\ Only(r, K) = <<>>
  BY <1>1, <1>4, <1>5, <1>6, OnlyAllOrNone
<1>8. Only(p \o q \o r, K) = p
  <2> DEFINE d == p \o q
  <2>1. d \in Seq(Names) /\ Only(d, K) = Only(p, K) \o Only(q, K)
    BY <1>1, ConcatProperties, OnlyConcat
  <2> HIDE DEF d
  <2>2. Only(d \o r, K) = Only(d, K) \o Only(r, K)
    <3>1. d \in Seq(Names) /\ r \in Seq(Names)
      BY <1>1, <2>1
    <3> QED BY <3>1, OnlyConcat
  <2>3. p \o <<>> = p
    BY <1>1, ConcatEmptySeq
  <2>4. Only(d \o r, K) = p
    BY <1>7, <2>1, <2>2, <2>3
  <2> QED BY <2>4 DEF d
<1> QED BY <1>1, <1>8 DEF K, p

(* As many results are kept for backward as it takes.                      *)
LEMMA KeptResults ==
  ASSUME NEW g, NEW f, NEW b, SplitOf(g, f, b)
  PROVE  /\ Len(Only(Indices(f.outputs), {i \in DOMAIN f.outputs : f.node[f.outputs[i]].intermediate}))
              = Len(CrossingPart(f, b))
         /\ Only(f.outputs, {n \in DOMAIN f.node : f.node[n].intermediate}) = CrossingPart(f, b)
         /\ DOMAIN f.outputs = 1..Len(f.outputs) /\ Len(f.outputs) \in Nat
<1> DEFINE o == f.outputs
           M == ToSet(f.nodes)
           I == {n \in DOMAIN f.node : f.node[n].intermediate}
           D == DOMAIN b.node
           C == ToSet(ordered_intermediates(f))
<1>1. o \in Seq(M) /\ DOMAIN f.node = M /\ f.nodes \in Seq(Names)
  BY DEF SplitOf, ForwardOf
<1>2. C = M \cap I
  BY <1>1, OnlyElements DEF ordered_intermediates
<1>3. C \subseteq D
  BY DEF SplitOf, BackwardOf
<1>4. \A x \in ToSet(o) : x \in M /\ ForwardOutput(g, x)
  <2>1. \A x \in ToSet(o) : ForwardOutput(g, x)
    BY DEF SplitOf, ForwardOf
  <2> HIDE DEF o, M
  <2> QED BY <1>1, <2>1, SeqElements
<1>5. \A x \in D : ForwardOutput(g, x) => x \in C
  BY WhatCrosses
<1> HIDE DEF o, C, D
<1>6. \A x \in ToSet(o) : x \in I <=> x \in D
  <2> HIDE DEF M, I
  <2> QED BY <1>2, <1>3, <1>4, <1>5
<1>7. {i \in DOMAIN o : f.node[o[i]].intermediate} = {i \in DOMAIN o : o[i] \in I}
  <2>1. \A i \in DOMAIN o : o[i] \in DOMAIN f.node
    <3> HIDE DEF M
    <3> QED BY <1>1
  <2> QED BY <2>1
<1> HIDE DEF M, I
<1>8. Len(Only(Indices(o), {i \in DOMAIN o : o[i] \in I})) = Len(Only(o, I))
  BY <1>1, OnlyPositions
<1>9. Only(o, I) = Only(o, D)
  BY <1>1, <1>6, OnlySame
<1>10. Len(Only(Indices(o), {i \in DOMAIN o : f.node[o[i]].intermediate})) = Len(Only(o, D))
  BY <1>7, <1>8, <1>9
<1>11. DOMAIN o = 1..Len(o) /\ Len(o) \in Nat
  BY <1>1, SeqElements
<1> QED BY <1>9, <1>10, <1>11 DEF CrossingPart, o, D, I

(* As many inputs of forward are handed on as backward takes.              *)
LEMMA HandedOn ==
  ASSUME NEW g, NEW f, NEW b, SplitOf(g, f, b)
  PROVE  /\ Len(Only(Indices(f.inputs), {i \in DOMAIN f.inputs : f.inputs[i] \in ToSet(b.inputs)}))
              = Len(ForwardPart(g, b))
         /\ Only(f.inputs, ToSet(b.inputs)) = ForwardPart(g, b)
         /\ DOMAIN f.inputs = 1..Len(f.inputs) /\ Len(f.inputs) \in Nat
<1> DEFINE s == ordered_module_inputs(g)
           F == {n \in DOMAIN g.node : is_forward(g, n)}
           D == DOMAIN b.node
           B == ToSet(b.inputs)
           p == GradientPart(g)
           q == CrossingPart(f, b)
           r == ForwardPart(g, b)
<1>1. /\ p \in Seq(Names) /\ q \in Seq(Names) /\ r \in Seq(Names) /\ b.inputs = p \o q \o r
      /\ \A x : x \in ToSet(p) <=> x \in ToSet(s) /\ is_backward(g, x)
      /\ \A x : x \in ToSet(q) <=> x \in ToSet(f.outputs) /\ x \in D
      /\ \A x : x \in ToSet(r) <=> x \in ToSet(s) /\ is_forward(g, x) /\ x \in D
  BY BackwardParts
<1>2. s \in Seq(ToSet(g.nodes)) /\ f.inputs = Only(s, F)
  BY OrderedInputs DEF SplitOf, ForwardOf
<1>3. \A x : x \in F => is_forward(g, x) /\ ~is_backward(g, x)
  BY DEF is_forward, is_backward
<1>4. r = Only(s, F \cap D)
  BY DEF ForwardPart
<1> HIDE DEF p, q, r, s, D
<1>5. B = ToSet(p) \cup ToSet(q) \cup ToSet(r)
  <2> DEFINE d == p \o q
  <2>1. d \in Seq(Names) /\ ToSet(d) = ToSet(p) \cup ToSet(q)
    BY <1>1, SeqConcat
  <2> HIDE DEF d
  <2>2. ToSet(d \o r) = ToSet(d) \cup ToSet(r)
    BY <1>1, <2>1, SeqConcat
  <2> QED BY <1>1, <2>1, <2>2 DEF d
<1> HIDE DEF B, F
<1>6. \A x \in ToSet(s) : x \in F \cap B <=> x \in F \cap D
  <2> SUFFICES ASSUME NEW x \in ToSet(s), x \in F PROVE x \in B <=> x \in D
    OBVIOUS
  <2>1. is_forward(g, x) /\ ~is_backward(g, x)
    BY <1>3
  <2>2. x \notin ToSet(p) /\ (x \in ToSet(q) => x \in D) /\ (x \in ToSet(r) <=> x \in D)
    BY <1>1, <2>1
  <2> QED BY <1>5, <2>2
<1> DEFINE i == f.inputs
<1>7. i \in Seq(ToSet(g.nodes)) /\ i = Only(s, F)
  BY <1>2, OnlyElements
<1> HIDE DEF i
<1>8. Len(Only(Indices(i), {j \in DOMAIN i : i[j] \in B})) = Len(Only(i, B))
  BY <1>7, OnlyPositions
<1>9. Only(i, B) = Only(s, F \cap B)
  BY <1>2, <1>7, OnlyTwice
<1>10. Only(s, F \cap B) = Only(s, F \cap D)
  <2> DEFINE S == F \cap B
             R == F \cap D
  <2>1. \A x \in ToSet(s) : x \in S <=> x \in R
    BY <1>6
  <2> HIDE DEF S, R
  <2>2. Only(s, S) = Only(s, R)
    BY <1>2, <2>1, OnlySame
  <2> QED BY <2>2 DEF S, R
<1>11. DOMAIN i = 1..Len(i) /\ Len(i) \in Nat
  BY <1>7, SeqElements
<1>12. Len(Only(Indices(i), {j \in DOMAIN i : i[j] \in B})) = Len(r)
  BY <1>4, <1>8, <1>9, <1>10
<1> QED BY <1>4, <1>9, <1>10, <1>11, <1>12 DEF i, B, r

(* The graphs that the model is split into.                                *)
LEMMA ModelIsSplit ==
  ASSUME GraphInv, stage = "done"
  PROVE  SplitOf(graph, Forward, Backward)
<1> DEFINE g == graph
           f == Forward
           b == Backward
<1>1. Plain(g) /\ f = extract_forward_graph(g) /\ b = extract_backward_graph(g, f)
  BY DEF GraphInv, Forward, Backward
<1> HIDE DEF g, f, b
<1>2. ForwardOf(g, f)
  BY <1>1, ForwardGraphIs
<1>3. BackwardOf(g, f, b)
  BY <1>1, <1>2, BackwardGraphIs DEF Plain
<1>4. SplitOf(g, f, b)
  BY <1>1, <1>2, <1>3 DEF SplitOf
<1> QED BY <1>4 DEF g, f, b

(* The inputs are these, and as many as the tensors.                       *)
LEMMA CallFits ==
  ASSUME GraphInv
  PROVE  BackwardCallFits
<1> SUFFICES ASSUME stage = "done"
             PROVE  /\ Backward.inputs = ordered_input_gradient_names
                           \o Only(Forward.outputs, {n \in DOMAIN Forward.node : Forward.node[n].intermediate})
                           \o Only(Forward.inputs, ToSet(Backward.inputs))
                    /\ Len(bwd_inputs) = Len(Backward.inputs)
  BY DEF BackwardCallFits, Done
<1> DEFINE g == graph
           f == Forward
           b == Backward
           p == GradientPart(g)
           q == CrossingPart(f, b)
           r == ForwardPart(g, b)
           kept == Only(Indices(f.outputs), {i \in DOMAIN f.outputs : f.node[f.outputs[i]].intermediate})
           used == Only(Indices(f.inputs), {i \in DOMAIN f.inputs : f.inputs[i] \in ToSet(b.inputs)})
           names == Only(b.inputs, {n \in DOMAIN b.node : b.node[n].kind = "Gradient"})
<1>1. SplitOf(g, f, b)
  BY ModelIsSplit
<1> HIDE DEF g, f, b
<1>2. p \in Seq(Names) /\ q \in Seq(Names) /\ r \in Seq(Names) /\ b.inputs = p \o q \o r
  BY <1>1, BackwardParts
<1>3. names = p
  BY <1>1, GradientsOfOutputs
<1>4. Len(kept) = Len(q) /\ Len(used) = Len(r)
  BY <1>1, KeptResults, HandedOn
<1>5. kept \in Seq(Nat) /\ used \in Seq(Nat)
  <2>1. Indices(f.outputs) \in Seq(Nat) /\ Indices(f.inputs) \in Seq(Nat)
    <3>1. /\ DOMAIN f.outputs = 1..Len(f.outputs) /\ Len(f.outputs) \in Nat
          /\ DOMAIN f.inputs = 1..Len(f.inputs) /\ Len(f.inputs) \in Nat
      BY <1>1, KeptResults, HandedOn
    <3> QED BY <3>1 DEF Indices
  <2> QED BY <2>1, OnlyElements
<1>6. b.inputs = ordered_input_gradient_names
                  \o Only(f.outputs, {n \in DOMAIN f.node : f.node[n].intermediate})
                  \o Only(f.inputs, ToSet(b.inputs))
  <2>1. ordered_input_gradient_names = p
    BY <1>3 DEF ordered_input_gradient_names, b
  <2>2. /\ Only(f.outputs, {n \in DOMAIN f.node : f.node[n].intermediate}) = q
        /\ Only(f.inputs, ToSet(b.inputs)) = r
    BY <1>1, KeptResults, HandedOn
  <2> QED BY <1>2, <2>1, <2>2
<1> HIDE DEF p, q, r, kept, used, names
<1>7. gradient_inputs \in Seq({gradient_inputs[i] : i \in DOMAIN p}) /\ Len(gradient_inputs) = Len(p)
  <2>1. gradient_inputs = [i \in DOMAIN p |-> Seed(i)]
    BY <1>3 DEF gradient_inputs, ordered_input_gradient_names, names, b
  <2>2. gradient_inputs = [i \in DOMAIN p |-> gradient_inputs[i]]
    BY <2>1
  <2> QED BY <1>2, <2>2, AsLong
<1>8. intermediates \in Seq({intermediates[i] : i \in DOMAIN kept}) /\ Len(intermediates) = Len(kept)
  <2>1. intermediates = [i \in DOMAIN kept |-> all_outputs[kept[i]]]
    BY DEF intermediates, kept, f
  <2>2. intermediates = [i \in DOMAIN kept |-> intermediates[i]]
    BY <2>1
  <2> QED BY <1>5, <2>2, AsLong
<1>9. /\ inputs_for_backward \in Seq({inputs_for_backward[i] : i \in DOMAIN used})
      /\ Len(inputs_for_backward) = Len(used)
  <2>1. inputs_for_backward = [i \in DOMAIN used |-> forward_inputs[used[i]]]
    BY DEF inputs_for_backward, used, f, b
  <2>2. inputs_for_backward = [i \in DOMAIN used |-> inputs_for_backward[i]]
    BY <2>1
  <2> QED BY <1>5, <2>2, AsLong
<1>10. Len(bwd_inputs) = Len(gradient_inputs) + Len(intermediates) + Len(inputs_for_backward)
  <2> DEFINE X == {gradient_inputs[i] : i \in DOMAIN p}
             Y == {intermediates[i] : i \in DOMAIN kept}
             Z == {inputs_for_backward[i] : i \in DOMAIN used}
  <2>1. gradient_inputs \in Seq(X) /\ intermediates \in Seq(Y) /\ inputs_for_backward \in Seq(Z)
    BY <1>7, <1>8, <1>9
  <2> HIDE DEF X, Y, Z
  <2> QED BY <2>1, ThreeLengths DEF bwd_inputs
<1>11. Len(b.inputs) = Len(p) + Len(q) + Len(r)
  BY <1>2, ThreeLengths
<1>12. Len(bwd_inputs) = Len(b.inputs)
  BY <1>4, <1>7, <1>8, <1>9, <1>10, <1>11
<1> QED BY <1>6, <1>12 DEF b, f

(* Backward is called with what it was split for, in the order of its      *)
(* inputs and as many: gradients of outputs, intermediate results, inputs  *)
(* of forward (compiled_graph_state.py backward, extract_backward_graph in *)
(* split_graph.cpp).                                                       *)
THEOREM BackwardGetsItsInputs == Spec => []BackwardCallFits
<1>1. GraphInv => BackwardCallFits
  BY CallFits
<1> QED BY <1>1, GraphInvariant, PTL

-----------------------------------------------------------------------------
(* What forward nodes compute.                                             *)

(* What node n makes of the values v of its operands.                      *)
Computed(g, given, v, n) ==
  IF g.node[n].type = "Input" THEN given[n]
  ELSE OpValue(g.node[n].kind, [i \in DOMAIN g.operands[n] |-> v[g.operands[n][i]]])

ValueEq(g, given, v, D) == v = [n \in D |-> Computed(g, given, v, n)]

(* It depends on the values of its operands only.                          *)
LEMMA ComputedAgrees ==
  ASSUME NEW g, NEW given, NEW n, NEW v, NEW w,
         \A i \in DOMAIN g.operands[n] : v[g.operands[n][i]] = w[g.operands[n][i]]
  PROVE  Computed(g, given, v, n) = Computed(g, given, w, n)
<1> DEFINE x == [i \in DOMAIN g.operands[n] |-> v[g.operands[n][i]]]
           y == [i \in DOMAIN g.operands[n] |-> w[g.operands[n][i]]]
<1>1. x = y
  OBVIOUS
<1>2. Computed(g, given, v, n) = IF g.node[n].type = "Input" THEN given[n] ELSE OpValue(g.node[n].kind, x)
  BY DEF Computed
<1>3. Computed(g, given, w, n) = IF g.node[n].type = "Input" THEN given[n] ELSE OpValue(g.node[n].kind, y)
  BY DEF Computed
<1> HIDE DEF x, y
<1> QED BY <1>1, <1>2, <1>3

(* In a graph without cycles all nodes have values.                        *)
LEMMA ValuesExist ==
  ASSUME NEW g, Dag(g), NEW given
  PROVE  \E v : ValueEq(g, given, v, ToSet(g.nodes))
<1> DEFINE N == ToSet(g.nodes)
           Below(k) == {n \in N : n[1] < k}
           S == {k \in Nat : \E v : ValueEq(g, given, v, Below(k))}
<1>1. \A n \in N : n[1] \in Nat
  BY DagNumbers
<1>2. 0 \in S
  <2>1. Below(0) = {}
    BY <1>1
  <2> DEFINE v0 == [n \in {} |-> 0]
  <2>2. ValueEq(g, given, v0, {})
    BY DEF ValueEq
  <2> HIDE DEF v0
  <2> QED BY <2>1, <2>2
<1>3. ASSUME NEW k \in Nat, k \in S PROVE k + 1 \in S
  <2>1. PICK v : ValueEq(g, given, v, Below(k))
    BY <1>3
  <2> DEFINE w == [n \in Below(k + 1) |-> Computed(g, given, v, n)]
  <2>2. \A n \in Below(k) : n \in Below(k + 1)
    BY <1>1
  <2>3. \A n \in Below(k) : v[n] = Computed(g, given, v, n)
    <3> HIDE DEF Below
    <3> QED BY <2>1 DEF ValueEq
  <2>4. \A n \in Below(k) : w[n] = v[n]
    <3> HIDE DEF Below
    <3> QED BY <2>2, <2>3
  <2>5. ASSUME NEW n \in Below(k + 1) PROVE Computed(g, given, v, n) = Computed(g, given, w, n)
    <3>1. /\ n \in N /\ g.operands[n] \in Seq(N)
          /\ \A i \in 1..Len(g.operands[n]) : g.operands[n][i] \in N /\ g.operands[n][i][1] < n[1]
      BY DagOperands
    <3>2. ASSUME NEW i \in DOMAIN g.operands[n] PROVE v[g.operands[n][i]] = w[g.operands[n][i]]
      <4> DEFINE m == g.operands[n][i]
      <4>1. m \in N /\ m[1] < n[1] /\ n[1] < k + 1
        BY <3>1
      <4>2. m[1] \in Nat /\ n[1] \in Nat
        BY <1>1, <3>1, <4>1
      <4> HIDE DEF m
      <4>3. m \in Below(k)
        BY <4>1, <4>2
      <4> HIDE DEF Below, w
      <4>4. w[m] = v[m]
        BY <2>4, <4>3
      <4> QED BY <4>4 DEF m
    <3> HIDE DEF w
    <3> QED BY <3>2, ComputedAgrees
  <2>6. ValueEq(g, given, w, Below(k + 1))
    <3>1. w = [n \in Below(k + 1) |-> Computed(g, given, v, n)]
      OBVIOUS
    <3>2. w = [n \in Below(k + 1) |-> Computed(g, given, w, n)]
      <4> HIDE DEF w, Below
      <4> QED BY <2>5, <3>1
    <3> HIDE DEF w, Below
    <3> QED BY <3>2 DEF ValueEq
  <2> HIDE DEF w, Below
  <2> QED BY <2>6
<1>4. \A k \in Nat : k \in S
  <2> HIDE DEF S
  <2> QED BY <1>2, <1>3, Induction
<1>5. PICK b \in Nat : \A n \in N : n[1] <= b
  BY DagNumbers
<1>6. Below(b + 1) = N
  BY <1>1, <1>5
<1>7. b + 1 \in S
  <2>1. b + 1 \in Nat
    OBVIOUS
  <2> HIDE DEF S
  <2> QED BY <1>4, <2>1
<1> QED BY <1>6, <1>7

(* The values of all nodes.                                                *)
HasValues(g, given, v) ==
  /\ ValueEq(g, given, v, ToSet(g.nodes))
  /\ \A n : Value(g, given, n) = v[n]

(* If any values fit, Value returns such values.                           *)
LEMMA ValuesOf ==
  ASSUME NEW g, NEW given, DOMAIN g.node = ToSet(g.nodes), NEW u, ValueEq(g, given, u, ToSet(g.nodes))
  PROVE  \E v : HasValues(g, given, v)
<1> DEFINE v == CHOOSE w : ValueEq(g, given, w, DOMAIN g.node)
<1>1. ValueEq(g, given, v, DOMAIN g.node)
  OBVIOUS
<1>2. \A n : Value(g, given, n) = v[n]
  BY DEF Value, ValueEq, Computed
<1> HIDE DEF v
<1>3. HasValues(g, given, v)
  BY <1>1, <1>2 DEF HasValues
<1> QED BY <1>3

(* The values of a model: its inputs are given by number.                  *)
ModelGiven(p) == [n \in {In(j) : j \in DOMAIN p.inputs} |-> Given(n[1])]
ModelValues(p) == [n \in ToSet(p.graph.nodes) |-> Value(p.graph, ModelGiven(p), n)]

(* They are what its ops compute.                                          *)
LEMMA ModelValuesAre ==
  ASSUME NEW p, Sound(p.graph)
  PROVE  \A n \in ToSet(p.graph.nodes) :
            ModelValues(p)[n] = Computed(p.graph, ModelGiven(p), ModelValues(p), n)
<1> DEFINE g == p.graph
           N == ToSet(g.nodes)
           given == ModelGiven(p)
           w == ModelValues(p)
<1>1. Dag(g) /\ DOMAIN g.node = N
  BY SoundIs DEF Sound
<1>2. w = [n \in N |-> Value(g, given, n)]
  BY DEF ModelValues
<1> HIDE DEF N, given, w
<1>3. PICK v : HasValues(g, given, v)
  BY <1>1, ValuesExist, ValuesOf DEF N
<1>4. v = [n \in N |-> Computed(g, given, v, n)]
  BY <1>3 DEF ValueEq, HasValues, N
<1>5. w = v
  <2>1. w = [n \in N |-> v[n]]
    BY <1>2, <1>3 DEF HasValues
  <2> QED BY <1>4, <2>1
<1>6. \A n \in N : w[n] = Computed(g, given, w, n)
  BY <1>4, <1>5
<1> QED BY <1>6 DEF N, w, given

(* The forward nodes of g are nodes of the model and have their values     *)
(* there.                                                                  *)
SameNode(p, g, n) ==
  /\ n \in ToSet(p.graph.nodes) /\ g.node[n] = p.graph.node[n]
  /\ \A m \in ToSet(g.operands[n]) : is_forward(g, m)
  /\ ModelValues(p)[n] = Computed(g, ModelGiven(p), ModelValues(p), n)

SameForward(p, g) ==
  /\ g.outputs = p.graph.outputs
  /\ \A n \in ToSet(g.nodes) : is_forward(g, n) => SameNode(p, g, n)

(* It is true at first.                                                    *)
LEMMA TracedIsSame ==
  ASSUME NEW p, IsTraced(p.graph), ReturnsOps(p.graph)
  PROVE  SameForward(p, p.graph)
<1> DEFINE g == p.graph
<1>1. Good(g) /\ \A n \in ToSet(g.nodes) : is_forward(g, n)
  BY TracedIsGood
<1>2. Sound(g)
  BY <1>1 DEF Good
<1>3. ASSUME NEW n \in ToSet(g.nodes) PROVE SameNode(p, g, n)
  <2>1. \A m \in ToSet(g.operands[n]) : m \in ToSet(g.nodes)
    BY <1>2, SoundOperands
  <2> QED BY <1>1, <1>2, <2>1, ModelValuesAre DEF SameNode
<1> QED BY <1>3 DEF SameForward

(* Nothing of it changes as long as forward nodes keep their operands.     *)
ForwardStays(g, h) ==
  /\ h.outputs = g.outputs
  /\ \A n \in ToSet(h.nodes) :
        is_forward(h, n) =>
          /\ n \in ToSet(g.nodes) /\ h.node[n] = g.node[n] /\ h.operands[n] = g.operands[n]
          /\ \A m \in ToSet(g.operands[n]) : h.node[m] = g.node[m]

(* The nodes have their values then.                                       *)
LEMMA SameStays ==
  ASSUME NEW p, NEW g, SameForward(p, g), NEW h, ForwardStays(g, h)
  PROVE  SameForward(p, h)
<1>1. ASSUME NEW n \in ToSet(h.nodes), is_forward(h, n) PROVE SameNode(p, h, n)
  <2>1. /\ n \in ToSet(g.nodes) /\ h.node[n] = g.node[n] /\ h.operands[n] = g.operands[n]
        /\ \A m \in ToSet(g.operands[n]) : h.node[m] = g.node[m]
    BY <1>1 DEF ForwardStays
  <2>2. SameNode(p, g, n)
    BY <1>1, <2>1 DEF SameForward, is_forward
  <2>3. Computed(h, ModelGiven(p), ModelValues(p), n) = Computed(g, ModelGiven(p), ModelValues(p), n)
    BY <2>1 DEF Computed
  <2> QED BY <2>1, <2>2, <2>3 DEF SameNode, is_forward
<1> QED BY <1>1 DEF SameForward, ForwardStays

(* So nodes may be added to other programs,                                *)
LEMMA SameGrows ==
  ASSUME NEW p, NEW g, Sound(g), SameForward(p, g), NEW h, Grows(g, h)
  PROVE  SameForward(p, h)
<1>1. ForwardStays(g, h)
  <2>1. \A n \in ToSet(g.nodes) : \A m \in ToSet(g.operands[n]) : m \in ToSet(g.nodes)
    BY SoundOperands
  <2> QED BY <2>1 DEF Grows, Keeps, ForwardStays
<1> QED BY <1>1, SameStays

(* edges of backward nodes be moved,                                       *)
LEMMA SameMoved ==
  ASSUME NEW p, Good(graph), SameForward(p, graph), NEW h, Moved(h)
  PROVE  SameForward(p, h)
<1>1. ForwardStays(graph, h)
  BY DEF Moved, ForwardStays, is_forward, is_backward
<1> QED BY <1>1, SameStays

(* and unused nodes be removed.                                            *)
LEMMA SameRemoved ==
  ASSUME NEW p, NEW g, Sound(g), SameForward(p, g), NEW n \in ToSet(g.nodes), NEW h, Removed(g, h, n)
  PROVE  SameForward(p, h)
<1>1. ForwardStays(g, h)
  <2>1. \A m \in ToSet(h.nodes) : ToSet(h.operands[m]) \subseteq ToSet(h.nodes)
    BY SoundOperands DEF Removed
  <2> QED BY <2>1 DEF Removed, ForwardStays
<1> QED BY <1>1, SameStays

(* A nop has the value of its operand.                                     *)
LEMMA NopComputes ==
  ASSUME NEW g, NEW given, NEW v, NEW n, g.node[n].type # "Input", g.node[n].kind \in {"nop", "none"},
         1 \in DOMAIN g.operands[n]
  PROVE  Computed(g, given, v, n) = v[g.operands[n][1]]
<1> DEFINE x == [i \in DOMAIN g.operands[n] |-> v[g.operands[n][i]]]
<1>1. Computed(g, given, v, n) = OpValue(g.node[n].kind, x)
  BY DEF Computed
<1>2. x[1] = v[g.operands[n][1]]
  OBVIOUS
<1> HIDE DEF x
<1>3. OpValue(g.node[n].kind, x) = x[1]
  BY DEF OpValue
<1> QED BY <1>1, <1>2, <1>3

(* Hence it may be bypassed.                                               *)
LEMMA SameBypassed ==
  ASSUME NEW p, NEW g, Plain(g), SameForward(p, g), NEW n \in ToSet(g.nodes), g.node[n].kind = "nop",
         NEW h, Bypassed(g, h, n)
  PROVE  SameForward(p, h)
<1> DEFINE w == ModelValues(p)
           given == ModelGiven(p)
           x == g.operands[n][1]
<1>1. /\ Sound(g) /\ g.node[n].type = "PyOp" /\ Len(g.operands[n]) = 1
  BY DEF Plain, NopGood
<1>2. /\ g.operands[n] \in Seq(ToSet(g.nodes)) /\ 1 \in DOMAIN g.operands[n]
      /\ x \in ToSet(g.operands[n]) /\ x \in ToSet(g.nodes)
  BY <1>1, SoundOperands
<1>3. is_forward(g, n) => w[n] = w[x] /\ is_forward(g, x)
  <2>1. is_forward(g, n) => SameNode(p, g, n)
    BY DEF SameForward
  <2>2. Computed(g, given, w, n) = w[x]
    BY <1>1, <1>2, NopComputes
  <2> HIDE DEF w, given
  <2> QED BY <1>2, <2>1, <2>2 DEF SameNode, w, given
<1> HIDE DEF x
<1>4. ASSUME NEW m \in ToSet(h.nodes), is_forward(h, m) PROVE SameNode(p, h, m)
  <2> DEFINE s == g.operands[m]
             t == h.operands[m]
  <2>1. /\ m \in ToSet(g.nodes) /\ h.node[m] = g.node[m] /\ Len(t) = Len(s)
        /\ \A i \in 1..Len(s) : t[i] = IF s[i] = n THEN x ELSE s[i]
    BY DEF Bypassed, x
  <2>2. SameNode(p, g, m)
    BY <1>4, <2>1 DEF SameForward, is_forward
  <2>3. DOMAIN s = 1..Len(s) /\ \A i \in 1..Len(s) : s[i] \in ToSet(s) /\ s[i] \in ToSet(g.nodes)
    BY <1>1, <2>1, SoundOperands
  <2>4. Sound(h) /\ t \in Seq(ToSet(h.nodes)) /\ DOMAIN t = 1..Len(t) /\ ToSet(t) = {t[i] : i \in 1..Len(t)}
    <3>1. Sound(h)
      BY DEF Bypassed
    <3>2. t \in Seq(ToSet(h.nodes))
      BY <3>1, SoundOperands
    <3> HIDE DEF t
    <3> QED BY <3>1, <3>2, SeqElements
  <2>5. \A i \in 1..Len(s) : is_forward(g, s[i])
    BY <2>2, <2>3 DEF SameNode
  <2>6. \A i \in 1..Len(s) : w[t[i]] = w[s[i]] /\ is_forward(g, t[i])
    <3> HIDE DEF w, s, t
    <3> QED BY <1>3, <2>1, <2>5
  <2>7. \A y \in ToSet(t) : is_forward(h, y)
    <3>1. \A y \in ToSet(t) : y \in ToSet(h.nodes)
      BY <2>4, SeqElements
    <3>2. \A y \in ToSet(h.nodes) : h.node[y] = g.node[y]
      BY DEF Bypassed
    <3> HIDE DEF s, t
    <3> QED BY <2>1, <2>4, <2>6, <3>1, <3>2 DEF is_forward
  <2>8. [i \in DOMAIN t |-> w[t[i]]] = [i \in DOMAIN s |-> w[s[i]]]
    <3> HIDE DEF w, s, t
    <3> QED BY <2>1, <2>3, <2>4, <2>6
  <2>9. Computed(h, given, w, m) = Computed(g, given, w, m)
    <3> HIDE DEF w, given
    <3> QED BY <2>1, <2>8 DEF Computed
  <2> HIDE DEF w, given
  <2> QED BY <2>1, <2>2, <2>7, <2>9 DEF SameNode, w, given
<1> QED BY <1>4 DEF SameForward, Bypassed

-----------------------------------------------------------------------------
(* The values of the forward nodes, step by step.                          *)

(* No pass changes what a forward node computes.                           *)
ForwardInv == program \in Programs /\ SameForward(program, graph)

(* The nops are bypassed one by one.                                       *)
LEMMA BypassAllSame ==
  ASSUME NEW p, NEW g, Finished(g), SameForward(p, g), NEW s \in Seq(ToSet(g.nodes)),
         \A i, j \in 1..Len(s) : s[i] = s[j] => i = j, \A i \in 1..Len(s) : g.node[s[i]].kind = "nop"
  PROVE  SameForward(p, BypassAll(g, s))
<1> DEFINE n == Len(s)
           X == {h \in AllGraphs : SameForward(p, h)}
           T == [A \in SUBSET (1..n) |-> {h \in NopsLeft(s, A) : SameForward(p, h)}]
           step == [i \in 1..n |-> [t \in X |-> bypass_node(t, s[i])]]
<1>1. n \in Nat /\ \A i \in 1..n : s[i] \in ToSet(g.nodes)
  BY SeqElements
<1>2. \A A \in SUBSET (1..n) : T[A] \subseteq X
  BY DEF NopsLeft
<1>3. g \in T[{}]
  <2>1. g \in AllGraphs
    BY DEF Finished, Plain, Sound
  <2> QED BY <1>1, <2>1 DEF NopsLeft
<1>4. ASSUME NEW A \in SUBSET (1..n), A # {}, NEW t \in T[A \ {Max(A)}]
      PROVE  step[Max(A)][t] \in T[A]
  <2>1. Max(A) \in A /\ Max(A) \in 1..n
    <3> HIDE DEF n
    <3> QED BY <1>1, <1>4, MaxOf
  <2> DEFINE k == Max(A)
             m == s[k]
  <2>2. A \ {k} \in SUBSET (1..n)
    OBVIOUS
  <2>3. t \in NopsLeft(s, A \ {k}) /\ SameForward(p, t) /\ t \in X
    BY <1>2, <2>2
  <2>4. bypass_node(t, m) \in NopsLeft(s, A)
    <3> HIDE DEF k
    <3> QED BY <2>1, <2>3, BypassStep DEF k
  <2>5. Plain(t) /\ Sound(t) /\ m \in ToSet(t.nodes) /\ t.node[m].kind = "nop"
    <3>1. k \in (1..Len(s)) \ (A \ {k})
      BY <2>1
    <3> HIDE DEF k
    <3> QED BY <2>3, <3>1 DEF NopsLeft, Finished, Plain
  <2> HIDE DEF m
  <2>6. SameForward(p, bypass_node(t, m))
    <3>1. PICK h : h = t
      OBVIOUS
    <3>2. Plain(h) /\ Sound(h) /\ m \in ToSet(h.nodes) /\ h.node[m].kind = "nop" /\ SameForward(p, h)
      BY <2>3, <2>5, <3>1
    <3> HIDE DEF X, T, step, n
    <3>3. Len(h.operands[m]) = 1
      BY <3>2 DEF Plain, NopGood
    <3>4. PICK f : f = bypass_node(h, m)
      OBVIOUS
    <3>5. Bypassed(h, f, m)
      BY <3>2, <3>3, <3>4, BypassNode
    <3>6. SameForward(p, f)
      BY <3>2, <3>5, SameBypassed
    <3> QED BY <3>1, <3>4, <3>6
  <2>7. step[k][t] = bypass_node(t, m)
    BY <2>1, <2>3 DEF m
  <2> HIDE DEF step, X
  <2> QED BY <2>4, <2>6, <2>7
<1>5. FoldHyp(n, T, g, step)
  <2> HIDE DEF n, X, T, step
  <2> QED BY <1>3, <1>4 DEF FoldHyp
<1>6. BypassAll(g, s) \in T[1..n]
  <2> HIDE DEF X, T
  <2> QED BY <1>2, <1>5, BypassFold
<1> HIDE DEF n
<1> QED BY <1>6

(* The invariant of the loops that add nodes to other programs.            *)
LEMMA ForwardGrows ==
  ASSUME GraphInv, ForwardInv, Grows(graph, graph'), program' = program
  PROVE  ForwardInv'
<1>1. PICK h : h = graph'
  OBVIOUS
<1>2. Sound(graph)
  BY DEF GraphInv, Plain
<1>3. SameForward(program, h)
  BY <1>1, <1>2, SameGrows DEF ForwardInv
<1> QED BY <1>1, <1>3 DEF ForwardInv

(* Of the steps that leave the graph alone.                                *)
LEMMA ForwardUnchanged ==
  ASSUME ForwardInv, graph' = graph, program' = program
  PROVE  ForwardInv'
BY DEF ForwardInv

(* Of the step that moves edges to recomputed ops.                         *)
LEMMA ForwardMoved ==
  ASSUME GraphInv, ForwardInv, add_edges_for_recompute_ops
  PROVE  ForwardInv'
<1>1. stage = "create_recompute_ops" /\ todo = <<>> /\ program' = program
  BY DEF add_edges_for_recompute_ops
<1>2. AllCloned
  BY <1>1, AllAreCloned DEF GraphInv
<1>3. PICK h : h = graph'
  OBVIOUS
<1>4. Moved(h)
  BY <1>2, <1>3, EdgesMoved DEF add_edges_for_recompute_ops
<1>5. SameForward(program, h)
  BY <1>2, <1>4, SameMoved DEF ForwardInv, AllCloned
<1> QED BY <1>1, <1>3, <1>5 DEF ForwardInv

(* Of the loop that removes recomputed ops.                                *)
LEMMA ForwardRemoved ==
  ASSUME GraphInv, ForwardInv, remove_recompute_op
  PROVE  ForwardInv'
<1> DEFINE n == Head(todo)
           unused == n \in DOMAIN graph.node /\ data_users(graph, n) = <<>>
<1>1. /\ program' = program
      /\ unused => graph' = remove_node(graph, n)
      /\ ~unused => graph' = graph
  BY DEF remove_recompute_op
<1> HIDE DEF n
<1>2. Sound(graph) /\ DOMAIN graph.node = ToSet(graph.nodes)
  BY SoundIs DEF GraphInv, Plain
<1>3. CASE unused
  <2>1. \A m \in ToSet(graph.nodes) : n \notin ToSet(graph.operands[m])
    BY <1>2, <1>3, DataUsersIs DEF UserOf
  <2>2. PICK h : h = graph'
    OBVIOUS
  <2>3. Removed(graph, h, n)
    BY <1>1, <1>2, <1>3, <2>1, <2>2, RemoveNode
  <2>4. SameForward(program, h)
    BY <1>2, <1>3, <2>3, SameRemoved DEF ForwardInv
  <2> QED BY <1>1, <2>2, <2>4 DEF ForwardInv
<1>4. CASE ~unused
  BY <1>1, <1>4, ForwardUnchanged
<1> QED BY <1>3, <1>4

(* Of the step that removes the nops.                                      *)
LEMMA ForwardBypassed ==
  ASSUME GraphInv, ForwardInv, remove_nops
  PROVE  ForwardInv'
<1> DEFINE S == {n \in DOMAIN graph.node : graph.node[n].kind = "nop"}
           t == Only(topological_sort(graph), S)
<1>1. stage = "remove_nops" /\ program' = program
  BY DEF remove_nops
<1>2. graph' = BypassAll(graph, t)
  BY DEF remove_nops, BypassAll, FoldLeft, MapThenFoldSet
<1>3. Finished(graph) /\ Sound(graph)
  BY <1>1 DEF GraphInv, RecomputedInv, Finished, Finishing, Plain
<1>4. \A n \in S : graph.node[n].kind = "nop"
  OBVIOUS
<1> HIDE DEF S
<1>5. /\ t \in Seq(ToSet(graph.nodes)) /\ ToSet(t) = ToSet(graph.nodes) \cap S
      /\ \A i, j \in 1..Len(t) : t[i] = t[j] => i = j
  BY <1>3, SortedOnly
<1> HIDE DEF t
<1>6. \A i \in 1..Len(t) : graph.node[t[i]].kind = "nop"
  <2>1. \A i \in 1..Len(t) : t[i] \in ToSet(t)
    BY <1>5, SeqElements
  <2> QED BY <1>4, <1>5, <2>1
<1>7. SameForward(program, graph')
  BY <1>2, <1>3, <1>5, <1>6, BypassAllSame DEF ForwardInv
<1> QED BY <1>1, <1>7 DEF ForwardInv

(* It holds at first,                                                      *)
LEMMA ForwardInit == Init => ForwardInv
<1> SUFFICES ASSUME Init PROVE ForwardInv
  OBVIOUS
<1>1. program \in Programs /\ graph = program.graph
  BY DEF Init
<1>2. SameForward(program, program.graph)
  BY <1>1, ProgramsAssumption, OutputsAssumption, TracedIsSame
<1> QED BY <1>1, <1>2 DEF ForwardInv

(* and every step keeps it.                                                *)
LEMMA ForwardStep ==
  ASSUME GraphInv, ForwardInv, [Next]_vars
  PROVE  ForwardInv'
<1>1. CASE propagate_requires_grad
  BY <1>1, ForwardUnchanged DEF propagate_requires_grad
<1>2. CASE create_gradient_input
  BY <1>2, GradientInputInv, ForwardGrows DEF create_gradient_input
<1>3. CASE gradient_inputs_created
  BY <1>3, ForwardUnchanged DEF gradient_inputs_created
<1>4. CASE SkipNode
  BY <1>4, ForwardUnchanged DEF SkipNode
<1>5. CASE AccumulateGradient
  BY <1>5, AccumulateGradientInv, ForwardGrows DEF AccumulateGradient
<1>6. CASE OutputGradient
  BY <1>6, OutputGradientInv, ForwardGrows DEF OutputGradient
<1>7. CASE Differentiate
  BY <1>7, DifferentiateInv, ForwardGrows DEF Differentiate
<1>8. CASE backward_graph_created
  BY <1>8, ForwardUnchanged DEF backward_graph_created
<1>9. CASE create_optimizer_graph
  BY <1>9, OptimizerGraphInv, ForwardGrows DEF create_optimizer_graph
<1>10. CASE optimizer_graph_created
  BY <1>10, ForwardUnchanged DEF optimizer_graph_created
<1>11. CASE create_recompute_op
  BY <1>11, RecomputeOpInv, ForwardGrows DEF create_recompute_op
<1>12. CASE add_edges_for_recompute_ops
  BY <1>12, ForwardMoved
<1>13. CASE remove_recompute_op
  BY <1>13, ForwardRemoved
<1>14. CASE recompute_ops_removed
  BY <1>14, ForwardUnchanged DEF recompute_ops_removed
<1>15. CASE remove_nops
  BY <1>15, ForwardBypassed
<1>16. CASE split_graph
  BY <1>16, ForwardUnchanged DEF split_graph
<1>17. CASE compiled \/ UNCHANGED vars
  BY <1>17, ForwardUnchanged DEF compiled, vars
<1> QED BY <1>1, <1>2, <1>3, <1>4, <1>5, <1>6, <1>7, <1>8, <1>9, <1>10, <1>11, <1>12, <1>13, <1>14,
           <1>15, <1>16, <1>17 DEF Next

(* No pass changes what forward nodes compute: one that is left has the    *)
(* value it has in the model.                                              *)
THEOREM ForwardKept == Spec => []ForwardInv
<1>1. Init => ForwardInv
  BY ForwardInit
<1>2. GraphInv /\ ForwardInv /\ [Next]_vars => ForwardInv'
  BY ForwardStep
<1> QED BY <1>1, <1>2, GraphInvariant, PTL DEF Spec

-----------------------------------------------------------------------------
(* What the user gets.                                                     *)

(* The forward graph has the forward nodes of g with what they read, and   *)
(* outputs for some of them.                                               *)
Copied(g, f, x) ==
  /\ is_forward(g, x)
  /\ f.node[x].type = g.node[x].type /\ f.node[x].kind = g.node[x].kind
  /\ f.operands[x] = g.operands[x]
PutOut(g, f, x) ==
  /\ f.node[x].type = "Output" /\ f.node[x].kind = "none"
  /\ \E n \in ToSet(g.nodes) : is_forward(g, n) /\ x = Intermediate(n) /\ f.operands[x] = <<n>>
ForwardCopy(g, f) ==
  /\ f.nodes \in Seq(Names) /\ DOMAIN f.node = ToSet(f.nodes)
  /\ \A x \in ToSet(f.nodes) : IF x \in ToSet(g.nodes) THEN Copied(g, f, x) ELSE PutOut(g, f, x)
  /\ \A n \in ToSet(g.nodes) : is_forward(g, n) => n \in ToSet(f.nodes)
  /\ \E r \in Seq(Names) : f.outputs = g.outputs \o r /\ \A x \in ToSet(r) : x \notin ToSet(g.nodes)

(* extract_forward_graph makes such a graph when forward reads forward     *)
(* nodes only.                                                             *)
LEMMA ForwardGraphCopies ==
  ASSUME NEW g, Plain(g),
         \A n \in ToSet(g.nodes) : is_forward(g, n) => \A m \in ToSet(g.operands[n]) : is_forward(g, m),
         NEW f, f = extract_forward_graph(g)
  PROVE  ForwardCopy(g, f)
<1> DEFINE N == ToSet(g.nodes)
           S == {n \in DOMAIN g.node : is_forward(g, n)}
           s == Only(topological_sort(g), S)
           C == {n \in DOMAIN g.node : needs_intermediate_output(g, n)}
           crossing == Only(g.nodes, C)
           inputs == Only(ordered_module_inputs(g), S)
           added == [i \in DOMAIN crossing |-> Intermediate(crossing[i])]
           outputs == g.outputs \o added
           fwd == CloneAll(g, EmptyGraph, s)
           both == AddIntermediates(fwd, crossing)
<1>1. Sound(g) /\ DOMAIN g.node = N /\ g.outputs \in Seq(Names) /\ N \subseteq Names
  BY SoundIs DEF Plain
<1>2. f = Marked(g, both, inputs, outputs)
  BY DEF extract_forward_graph, Marked, CloneAll, AddIntermediates, IntermediateOutput, FoldLeft, MapThenFoldSet
<1>3. \A n \in N : n \in S <=> is_forward(g, n)
  BY <1>1
<1>4. \A n \in N : n \in C => is_forward(g, n)
  BY DEF needs_intermediate_output
<1>5. crossing \in Seq(N) /\ ToSet(crossing) = N \cap C
  BY <1>1, NodesByType
<1> HIDE DEF S, C, crossing
<1>6. /\ s \in Seq(N) /\ ToSet(s) = N \cap S
      /\ \A i \in 1..Len(s) : \A m \in ToSet(g.operands[s[i]]) :
               m \in S => \E j \in 1..Len(s) : j < i /\ s[j] = m
  BY <1>1, SortedOnly
<1> HIDE DEF s
<1>7. ToSet(s) = {s[i] : i \in 1..Len(s)} /\ \A i \in 1..Len(s) : s[i] \in ToSet(s)
  BY <1>6, SeqElements
<1>8. ReadsEarlier(g, s)
  <2> SUFFICES ASSUME NEW i \in 1..Len(s), NEW m \in ToSet(g.operands[s[i]])
               PROVE  \E j \in 1..Len(s) : j < i /\ s[j] = m
    BY DEF ReadsEarlier
  <2>1. s[i] \in N /\ is_forward(g, s[i])
    BY <1>3, <1>6, <1>7
  <2>2. m \in N
    BY <1>1, <2>1, SoundOperands
  <2>3. m \in S
    BY <1>3, <2>1, <2>2
  <2> QED BY <1>6, <2>3
<1>9. /\ PartOf(g, fwd) /\ ToSet(fwd.nodes) \subseteq ToSet(s)
      /\ \A i \in 1..Len(s) : s[i] \in ToSet(fwd.nodes)
      /\ SameOperands(g, fwd)
  BY <1>1, <1>6, <1>8, CloneAllIs
<1> HIDE DEF fwd
<1>10. Loose(fwd) /\ DOMAIN fwd.node = ToSet(fwd.nodes)
  BY <1>9, SoundIs DEF PartOf, Sound, Loose
<1>11. Extended(crossing, fwd, both)
  BY <1>1, <1>5, <1>10, IntermediatesAre
<1> HIDE DEF both
<1>12. DOMAIN both.node = ToSet(both.nodes)
  BY <1>11 DEF Extended, Loose
<1> DEFINE Mark(n) == [both.node[n] EXCEPT !.intermediate = @ \/ (n \in DOMAIN g.node /\ IsIntermediate(g, n))]
           node == [n \in DOMAIN both.node |-> Mark(n)]
<1>13. f.nodes = both.nodes /\ f.outputs = outputs /\ f.operands = both.operands /\ f.node = node
  <2>1. both = [nodes |-> both.nodes, node |-> both.node, operands |-> both.operands, loopback |-> both.loopback,
                inputs |-> both.inputs, outputs |-> both.outputs]
    BY <1>11 DEF Extended, Loose, AllGraphs
  <2>2. MarkIntermediates(g, both.node) = node
    BY DEF MarkIntermediates
  <2> HIDE DEF node, outputs, inputs
  <2>3. f = [both EXCEPT !.inputs = inputs, !.outputs = outputs, !.node = node]
    BY <1>2, <2>2 DEF Marked
  <2> QED BY <2>1, <2>3
<1>14. \A x \in ToSet(f.nodes) : f.node[x].type = both.node[x].type /\ f.node[x].kind = both.node[x].kind
  <2> SUFFICES ASSUME NEW x \in ToSet(f.nodes)
               PROVE  f.node[x].type = both.node[x].type /\ f.node[x].kind = both.node[x].kind
    OBVIOUS
  <2>1. x \in DOMAIN both.node
    BY <1>12, <1>13
  <2>2. both.node[x] \in NodeRecords
    BY <1>11, <2>1 DEF Extended, Loose, AllGraphs, PartialMaps
  <2>3. f.node[x] = Mark(x)
    BY <1>13, <2>1
  <2>4. Mark(x).type = both.node[x].type /\ Mark(x).kind = both.node[x].kind
    BY <2>2 DEF NodeRecords
  <2> HIDE DEF Mark
  <2> QED BY <2>3, <2>4
<1> HIDE DEF node
<1>15. \A x \in ToSet(fwd.nodes) : x \in N /\ is_forward(g, x)
  BY <1>3, <1>6, <1>9
<1>16. ASSUME NEW x \in ToSet(f.nodes)
       PROVE  IF x \in N THEN Copied(g, f, x) ELSE PutOut(g, f, x)
  <2>1. x \in DOMAIN both.node
    BY <1>12, <1>13
  <2>2. CASE x \in DOMAIN fwd.node
    <3>1. both.node[x] = fwd.node[x] /\ both.operands[x] = fwd.operands[x]
      BY <1>11, <2>2 DEF Extended
    <3>2. fwd.node[x] = g.node[x] /\ fwd.operands[x] = g.operands[x]
      BY <1>9, <1>10, <2>2 DEF PartOf, SameOperands
    <3>3. x \in N /\ is_forward(g, x)
      BY <1>10, <1>15, <2>2
    <3> QED BY <1>13, <1>14, <3>1, <3>2, <3>3 DEF Copied
  <2>3. CASE x \notin DOMAIN fwd.node
    <3>1. PICK n \in ToSet(crossing) :
             x = Intermediate(n) /\ both.node[x] = IntermediateOutput /\ both.operands[x] = <<n>>
      BY <1>11, <2>1, <2>3 DEF Extended
    <3>2. n \in N /\ is_forward(g, n)
      BY <1>4, <1>5, <3>1
    <3>3. x \notin N
      BY <3>1, <3>2, NewNames
    <3>4. IntermediateOutput.type = "Output" /\ IntermediateOutput.kind = "none"
      BY DEF IntermediateOutput, Node
    <3>5. PutOut(g, f, x)
      BY <1>13, <1>14, <3>1, <3>2, <3>4 DEF PutOut
    <3> QED BY <3>3, <3>5
  <2> QED BY <2>2, <2>3
<1>17. ASSUME NEW n \in N, is_forward(g, n) PROVE n \in ToSet(f.nodes)
  <2>1. n \in ToSet(s)
    BY <1>3, <1>6, <1>17
  <2>2. n \in DOMAIN fwd.node
    BY <1>7, <1>9, <1>10, <2>1
  <2> QED BY <1>11, <1>12, <1>13, <2>2 DEF Extended
<1>18. added \in Seq(Names) /\ \A x \in ToSet(added) : x \notin N
  <2>1. /\ DOMAIN crossing = 1..Len(crossing) /\ Len(crossing) \in Nat
        /\ \A i \in 1..Len(crossing) : crossing[i] \in N
    BY <1>5, SeqElements
  <2>2. added = [i \in 1..Len(crossing) |-> Intermediate(crossing[i])]
    BY <2>1
  <2> HIDE DEF added
  <2>3. \A n \in N : Intermediate(n) \in Names
    <3>1. "intermediate" \in Tags
      BY DEF Tags
    <3> QED BY <1>1, <3>1, SuffixedIs DEF Intermediate
  <2>4. added \in Seq(Names) /\ Len(added) = Len(crossing)
    BY <2>1, <2>2, <2>3
  <2>5. ToSet(added) = {added[i] : i \in 1..Len(crossing)}
    BY <2>4, SeqElements
  <2>6. \A i \in 1..Len(crossing) : added[i] \notin N
    BY <2>1, <2>2, NewNames
  <2> QED BY <2>4, <2>5, <2>6
<1>19. f.outputs = g.outputs \o added
  BY <1>13
<1> HIDE DEF added, outputs
<1>20. f.nodes \in Seq(Names) /\ DOMAIN f.node = ToSet(f.nodes)
  BY <1>11, <1>12, <1>13 DEF Extended, Loose, AllGraphs, node
<1> QED BY <1>16, <1>17, <1>18, <1>19, <1>20 DEF ForwardCopy

(* A graph that forward runs on the inputs of model p.                     *)
RunsModel(p, g, f, given) ==
  /\ IsTraced(p.graph) /\ IsGraphOf(p.graph, p)
  /\ Sound(g) /\ SameForward(p, g) /\ ForwardCopy(g, f)
  /\ \A x \in ToSet(f.nodes) : f.node[x].type = "Input" => given[x] = Given(x[1])

(* What is known of a forward node then.                                   *)
LEMMA ForwardNode ==
  ASSUME NEW p, NEW g, NEW f, NEW given, RunsModel(p, g, f, given),
         NEW n \in ToSet(g.nodes), is_forward(g, n)
  PROVE  /\ n \in ToSet(f.nodes) /\ Copied(g, f, n) /\ n = In(n[1]) /\ n[1] \in Nat
         /\ g.node[n].type = "Input" => ModelGiven(p)[n] = Given(n[1])
         /\ ModelValues(p)[n] = Computed(g, ModelGiven(p), ModelValues(p), n)
         /\ g.operands[n] \in Seq(ToSet(g.nodes)) /\ DOMAIN g.operands[n] = 1..Len(g.operands[n])
         /\ \A i \in 1..Len(g.operands[n]) :
               /\ g.operands[n][i] \in ToSet(g.nodes) /\ is_forward(g, g.operands[n][i])
               /\ g.operands[n][i][1] < n[1]
<1>1. n \in ToSet(f.nodes) /\ Copied(g, f, n)
  BY DEF RunsModel, ForwardCopy
<1>2. Sound(g) /\ SameNode(p, g, n)
  BY DEF RunsModel, SameForward
<1>3. n \in DOMAIN p.graph.node /\ g.node[n] = p.graph.node[n]
  <2> DEFINE N == ToSet(p.graph.nodes)
  <2>1. p.graph \in Graphs(N)
    BY DEF RunsModel, IsTraced, WellFormed
  <2> HIDE DEF N
  <2>2. DOMAIN p.graph.node = N
    BY <2>1 DEF Graphs
  <2> QED BY <1>2, <2>2 DEF SameNode, N
<1>4. n = In(n[1])
  BY <1>3 DEF RunsModel, IsTraced
<1>5. n[1] \in Nat
  BY <1>2, DagNumbers DEF Sound
<1>6. ASSUME g.node[n].type = "Input" PROVE ModelGiven(p)[n] = Given(n[1])
  <2>1. n[1] \in DOMAIN p.inputs
    BY <1>3, <1>6 DEF RunsModel, IsGraphOf
  <2>2. n \in {In(j) : j \in DOMAIN p.inputs}
    BY <1>4, <2>1
  <2> QED BY <2>2 DEF ModelGiven
<1>7. /\ g.operands[n] \in Seq(ToSet(g.nodes)) /\ DOMAIN g.operands[n] = 1..Len(g.operands[n])
      /\ \A m \in ToSet(g.operands[n]) : m \in ToSet(g.nodes) /\ m[1] < n[1]
      /\ \A i \in 1..Len(g.operands[n]) : g.operands[n][i] \in ToSet(g.operands[n])
  BY <1>2, SoundOperands
<1> QED BY <1>1, <1>2, <1>4, <1>5, <1>6, <1>7 DEF SameNode

(* The values of the model, by number, are values of the forward graph.    *)
LEMMA ModelValuesFit ==
  ASSUME NEW p, NEW g, NEW f, NEW given, RunsModel(p, g, f, given),
         NEW v, v = [x \in ToSet(f.nodes) |-> ModelValues(p)[In(x[1])]]
  PROVE  ValueEq(f, given, v, ToSet(f.nodes))
<1> DEFINE N == ToSet(g.nodes)
           F == ToSet(f.nodes)
           w == ModelValues(p)
<1>1. \A n \in N : is_forward(g, n) => n \in F /\ v[n] = w[n]
  <2> SUFFICES ASSUME NEW n \in N, is_forward(g, n) PROVE n \in F /\ v[n] = w[n]
    OBVIOUS
  <2>1. n \in F /\ n = In(n[1])
    BY ForwardNode
  <2> QED BY <2>1
<1>2. ASSUME NEW x \in F, x \in N PROVE v[x] = Computed(f, given, v, x)
  <2>1. Copied(g, f, x)
    BY <1>2 DEF RunsModel, ForwardCopy
  <2>2. is_forward(g, x)
    BY <2>1 DEF Copied
  <2>3. /\ w[x] = Computed(g, ModelGiven(p), w, x)
        /\ g.node[x].type = "Input" => ModelGiven(p)[x] = Given(x[1])
        /\ DOMAIN g.operands[x] = 1..Len(g.operands[x])
        /\ \A i \in 1..Len(g.operands[x]) : g.operands[x][i] \in N /\ is_forward(g, g.operands[x][i])
    BY <1>2, <2>2, ForwardNode
  <2>4. v[x] = w[x]
    BY <1>1, <1>2, <2>2
  <2>5. CASE g.node[x].type = "Input"
    <3>1. f.node[x].type = "Input"
      BY <2>1, <2>5 DEF Copied
    <3>2. given[x] = Given(x[1])
      BY <3>1 DEF RunsModel
    <3> QED BY <2>3, <2>4, <2>5, <3>1, <3>2 DEF Computed
  <2>6. CASE g.node[x].type # "Input"
    <3>1. f.node[x].type # "Input" /\ f.node[x].kind = g.node[x].kind /\ f.operands[x] = g.operands[x]
      BY <2>1, <2>6 DEF Copied
    <3>2. Computed(g, ModelGiven(p), w, x) = Computed(f, given, w, x)
      BY <2>6, <3>1 DEF Computed
    <3>3. \A i \in DOMAIN f.operands[x] : w[f.operands[x][i]] = v[f.operands[x][i]]
      BY <1>1, <2>3, <3>1
    <3>4. Computed(f, given, w, x) = Computed(f, given, v, x)
      BY <3>3, ComputedAgrees
    <3> QED BY <2>3, <2>4, <3>2, <3>4
  <2> QED BY <2>5, <2>6
<1>3. ASSUME NEW x \in F, x \notin N PROVE v[x] = Computed(f, given, v, x)
  <2>1. PutOut(g, f, x)
    BY <1>3 DEF RunsModel, ForwardCopy
  <2>2. PICK n \in N : is_forward(g, n) /\ x = Intermediate(n) /\ f.operands[x] = <<n>>
    BY <2>1 DEF PutOut
  <2>3. In(x[1]) = In(n[1])
    BY <2>2 DEF Intermediate, Suffixed
  <2>4. v[x] = v[n]
    <3>1. n \in F
      BY <1>1, <2>2
    <3> QED BY <2>3, <3>1
  <2>5. Computed(f, given, v, x) = v[f.operands[x][1]]
    <3>1. f.node[x].type # "Input" /\ f.node[x].kind \in {"nop", "none"}
      BY <2>1 DEF PutOut
    <3>2. 1 \in DOMAIN f.operands[x]
      BY <2>2
    <3> QED BY <3>1, <3>2, NopComputes
  <2> QED BY <2>2, <2>4, <2>5
<1>4. v = [x \in F |-> Computed(f, given, v, x)]
  BY <1>2, <1>3
<1> QED BY <1>4 DEF ValueEq

(* There are no others: forward computes the values of the model.          *)
LEMMA ForwardComputes ==
  ASSUME NEW p, NEW g, NEW f, NEW given, RunsModel(p, g, f, given),
         NEW o \in ToSet(g.nodes), is_forward(g, o)
  PROVE  Value(f, given, o) = ModelValues(p)[o]
<1> DEFINE N == ToSet(g.nodes)
           F == ToSet(f.nodes)
           w == ModelValues(p)
           u == [x \in F |-> w[In(x[1])]]
<1>1. ValueEq(f, given, u, F)
  BY ModelValuesFit
<1>2. \A n \in N : is_forward(g, n) => n \in F /\ u[n] = w[n]
  <2> SUFFICES ASSUME NEW n \in N, is_forward(g, n) PROVE n \in F /\ u[n] = w[n]
    OBVIOUS
  <2>1. n \in F /\ n = In(n[1])
    BY ForwardNode
  <2> QED BY <2>1
<1> HIDE DEF u, w
<1>3. PICK v : HasValues(f, given, v)
  <2>1. DOMAIN f.node = F
    BY DEF RunsModel, ForwardCopy
  <2> QED BY <1>1, <2>1, ValuesOf
<1> DEFINE T == {n[1] : n \in {m \in N : is_forward(g, m) /\ v[m] # w[m]}}
<1>4. ASSUME T # {} PROVE FALSE
  <2>1. \A n \in N : is_forward(g, n) => n[1] \in Nat
    <3> SUFFICES ASSUME NEW n \in N, is_forward(g, n) PROVE n[1] \in Nat
      OBVIOUS
    <3> QED BY ForwardNode
  <2>2. T \in SUBSET Nat
    BY <2>1
  <2>3. PICK k \in T : \A y \in T : k <= y
    <3> HIDE DEF T
    <3> QED BY <1>4, <2>2, Least
  <2>4. PICK n \in N : is_forward(g, n) /\ v[n] # w[n] /\ k = n[1]
    BY <2>3
  <2>5. /\ Copied(g, f, n) /\ DOMAIN g.operands[n] = 1..Len(g.operands[n])
        /\ \A i \in 1..Len(g.operands[n]) :
              /\ g.operands[n][i] \in N /\ is_forward(g, g.operands[n][i])
              /\ g.operands[n][i][1] < n[1]
    BY <2>4, ForwardNode
  <2>6. f.operands[n] = g.operands[n]
    BY <2>5 DEF Copied
  <2>7. ASSUME NEW i \in DOMAIN f.operands[n] PROVE v[f.operands[n][i]] = u[f.operands[n][i]]
    <3> DEFINE m == f.operands[n][i]
    <3>1. m \in N /\ is_forward(g, m) /\ m[1] < n[1]
      BY <2>5, <2>6
    <3> HIDE DEF m
    <3>2. m[1] \in Nat /\ n[1] \in Nat
      BY <2>1, <2>4, <3>1
    <3>3. m[1] \notin T
      BY <2>3, <2>4, <3>1, <3>2
    <3>4. v[m] = w[m]
      BY <3>1, <3>3
    <3>5. u[m] = w[m]
      BY <1>2, <3>1
    <3> QED BY <3>4, <3>5 DEF m
  <2>8. Computed(f, given, v, n) = Computed(f, given, u, n)
    BY <2>7, ComputedAgrees
  <2>9. n \in F /\ u[n] = w[n]
    BY <1>2, <2>4
  <2>10. v[n] = Computed(f, given, v, n) /\ u[n] = Computed(f, given, u, n)
    BY <1>1, <1>3, <2>9 DEF ValueEq, HasValues
  <2> QED BY <2>4, <2>8, <2>9, <2>10
<1>5. v[o] = w[o]
  BY <1>4
<1> QED BY <1>3, <1>5 DEF w, HasValues

(* What a program is given.                                                *)
GivenTo(g, args) ==
  [n \in Persistent(g) \cup ToSet(g.inputs) |->
     IF n \in Persistent(g) THEN PoolTensor(g, n)
     ELSE args[CHOOSE i \in DOMAIN g.inputs : g.inputs[i] = n]]

(* Forward is given the inputs of the model.                               *)
LEMMA ForwardIsGiven ==
  ASSUME NEW p, IsTraced(p.graph), NEW g, SameForward(p, g), ForwardCopy(g, Forward),
         NEW x \in ToSet(Forward.nodes), Forward.node[x].type = "Input"
  PROVE  GivenTo(Forward, forward_inputs)[x] = Given(x[1])
<1> DEFINE f == Forward
           given == GivenTo(f, forward_inputs)
           S == {n \in DOMAIN f.node : f.node[n].type = "Input"}
<1>1. f.nodes \in Seq(Names) /\ DOMAIN f.node = ToSet(f.nodes)
  BY DEF ForwardCopy
<1>2. Copied(g, f, x) /\ x \in ToSet(g.nodes)
  <2>1. IF x \in ToSet(g.nodes) THEN Copied(g, f, x) ELSE PutOut(g, f, x)
    BY DEF ForwardCopy
  <2>2. ~PutOut(g, f, x)
    BY DEF PutOut
  <2> QED BY <2>1, <2>2
<1>3. f.node[x].kind \in {"Parameter", "Activation"}
  <2>1. SameNode(p, g, x)
    BY <1>2 DEF Copied, SameForward
  <2>2. f.node[x].type = p.graph.node[x].type /\ f.node[x].kind = p.graph.node[x].kind
    BY <1>2, <2>1 DEF SameNode, Copied
  <2>3. x \in DOMAIN p.graph.node
    <3> DEFINE N == ToSet(p.graph.nodes)
    <3>1. p.graph \in Graphs(N) /\ x \in N
      BY <2>1 DEF IsTraced, WellFormed, SameNode
    <3> HIDE DEF N
    <3> QED BY <3>1 DEF Graphs
  <2> QED BY <2>2, <2>3 DEF IsTraced
<1>4. x \in ToSet(nodes_by_type(f, "Input"))
  <2>1. x \in S
    BY <1>1
  <2>2. nodes_by_type(f, "Input") = Only(f.nodes, S)
    BY DEF nodes_by_type
  <2> HIDE DEF S
  <2> QED BY <1>1, <2>1, <2>2, OnlyElements
<1>5. CASE x \in ToSet(f.inputs)
  <2>1. x \notin Persistent(f)
    BY <1>5 DEF Persistent
  <2> DEFINE i == CHOOSE j \in DOMAIN f.inputs : f.inputs[j] = x
  <2>2. i \in DOMAIN f.inputs /\ f.inputs[i] = x
    BY <1>5 DEF ToSet
  <2>3. given[x] = forward_inputs[i]
    BY <1>5, <2>1 DEF GivenTo
  <2> HIDE DEF i
  <2>4. forward_inputs[i] = Given(f.inputs[i][1])
    BY <2>2 DEF forward_inputs
  <2> QED BY <2>2, <2>3, <2>4
<1>6. CASE x \notin ToSet(f.inputs)
  <2>1. x \in Persistent(f)
    BY <1>4, <1>6 DEF Persistent
  <2>2. given[x] = PoolTensor(f, x)
    BY <2>1 DEF GivenTo
  <2>3. PoolTensor(f, x) = Given(x[1])
    BY <1>3 DEF PoolTensor
  <2> QED BY <2>2, <2>3
<1> QED BY <1>5, <1>6

(* Hence forward runs the model.                                           *)
LEMMA ForwardRuns ==
  ASSUME GraphInv, ForwardInv, stage = "done"
  PROVE  RunsModel(program, graph, Forward, GivenTo(Forward, forward_inputs))
<1>1. IsTraced(program.graph) /\ IsGraphOf(program.graph, program)
  BY ProgramsAssumption, GraphsAssumption DEF ForwardInv
<1>2. Plain(graph) /\ Sound(graph) /\ Forward = extract_forward_graph(graph) /\ SameForward(program, graph)
  BY DEF GraphInv, Plain, Forward, ForwardInv
<1>3. ForwardCopy(graph, Forward)
  <2>1. \A n \in ToSet(graph.nodes) : is_forward(graph, n) => \A m \in ToSet(graph.operands[n]) : is_forward(graph, m)
    BY <1>2 DEF SameForward, SameNode
  <2> QED BY <1>2, <2>1, ForwardGraphCopies
<1>4. \A x \in ToSet(Forward.nodes) :
         Forward.node[x].type = "Input" => GivenTo(Forward, forward_inputs)[x] = Given(x[1])
  BY <1>1, <1>2, <1>3, ForwardIsGiven
<1> QED BY <1>1, <1>2, <1>3, <1>4 DEF RunsModel

(* Only the outputs of the model are the user's.                           *)
LEMMA FirstIndices ==
  ASSUME NEW X, NEW s \in Seq(X), NEW r \in Seq(X), \A x \in ToSet(r) : x \notin ToSet(s)
  PROVE  Only(Indices(s \o r), {i \in DOMAIN (s \o r) : (s \o r)[i] \in ToSet(s)}) = Indices(s)
<1> DEFINE t == s \o r
           I == Indices(s)
           J == [i \in 1..Len(r) |-> Len(s) + i]
           S == {i \in DOMAIN t : t[i] \in ToSet(s)}
<1>1. /\ t \in Seq(X) /\ Len(t) = Len(s) + Len(r) /\ Len(s) \in Nat /\ Len(r) \in Nat
      /\ DOMAIN t = 1..(Len(s) + Len(r)) /\ DOMAIN s = 1..Len(s) /\ DOMAIN r = 1..Len(r)
      /\ \A i \in 1..Len(s) : t[i] = s[i]
      /\ \A i \in 1..Len(r) : t[Len(s) + i] = r[i]
  OBVIOUS
<1> HIDE DEF t
<1>2. I \in Seq(Nat) /\ Len(I) = Len(s) /\ \A i \in 1..Len(s) : I[i] = i
  BY <1>1 DEF Indices
<1>3. J \in Seq(Nat) /\ Len(J) = Len(r) /\ \A i \in 1..Len(r) : J[i] = Len(s) + i
  BY <1>1
<1>4. Indices(t) \in Seq(Nat) /\ Len(Indices(t)) = Len(t) /\ \A i \in 1..Len(t) : Indices(t)[i] = i
  BY <1>1 DEF Indices
<1> HIDE DEF I, J
<1>5. Indices(t) = I \o J
  <2> DEFINE K == I \o J
             L == Indices(t)
  <2>1. /\ I \o J \in Seq(Nat) /\ Len(I \o J) = Len(I) + Len(J)
        /\ \A i \in 1..(Len(I) + Len(J)) : (I \o J)[i] = IF i <= Len(I) THEN I[i] ELSE J[i - Len(I)]
    <3>1. I \in Seq(Nat) /\ J \in Seq(Nat)
      BY <1>2, <1>3
    <3> QED BY <3>1, ConcatProperties
  <2> HIDE DEF K
  <2>2. ASSUME NEW i \in 1..Len(t) PROVE K[i] = i
    <3>1. K[i] = IF i <= Len(I) THEN I[i] ELSE J[i - Len(I)]
      BY <1>1, <1>2, <1>3, <2>1 DEF K
    <3>2. CASE i <= Len(s)
      BY <1>1, <1>2, <3>1, <3>2
    <3>3. CASE ~(i <= Len(s))
      <4> DEFINE l == Len(s)
                 k == i - l
      <4>1. l \in Nat /\ i \in Nat /\ k \in 1..Len(r) /\ l + k = i
        BY <1>1, <3>3
      <4>2. K[i] = J[k]
        BY <1>2, <3>1, <3>3
      <4>3. J[k] = l + k
        <5> HIDE DEF k
        <5> QED BY <1>3, <4>1
      <4> QED BY <4>1, <4>2, <4>3
    <3> QED BY <3>2, <3>3
  <2> HIDE DEF K, L
  <2>3. L \in Seq(Nat) /\ Len(L) = Len(t) /\ \A i \in 1..Len(t) : L[i] = i
    BY <1>4 DEF L
  <2>4. K \in Seq(Nat) /\ Len(K) = Len(t)
    BY <1>1, <1>2, <1>3, <2>1 DEF K
  <2>5. \A i \in 1..Len(L) : L[i] = K[i]
    BY <2>2, <2>3
  <2>6. L = K
    BY <2>3, <2>4, <2>5, SeqEqual
  <2> QED BY <2>6 DEF K, L
<1>6. \A i \in ToSet(I) : i \in S
  <2>1. ToSet(I) = {I[i] : i \in 1..Len(I)}
    BY <1>2, SeqElements
  <2>2. \A i \in 1..Len(s) : i \in S
    BY <1>1 DEF ToSet
  <2> QED BY <1>2, <2>1, <2>2
<1>7. \A i \in ToSet(J) : i \notin S
  <2>1. ToSet(J) = {J[i] : i \in 1..Len(J)}
    BY <1>3, SeqElements
  <2>2. \A i \in 1..Len(r) : r[i] \in ToSet(r)
    BY SeqElements
  <2>3. \A i \in 1..Len(r) : Len(s) + i \notin S
    BY <1>1, <2>2
  <2> QED BY <1>3, <2>1, <2>3
<1> HIDE DEF S
<1>8. Only(I, S) = I /\ Only(J, S) = <<>>
  BY <1>2, <1>3, <1>6, <1>7, OnlyAllOrNone
<1>9. Only(I \o J, S) = Only(I, S) \o Only(J, S)
  BY <1>2, <1>3, OnlyConcat
<1>10. I \o <<>> = I
  BY <1>2, ConcatEmptySeq
<1> QED BY <1>5, <1>8, <1>9, <1>10 DEF t, I, S

(* The outputs of the user are those of the graph, in their order.         *)
LEMMA ModelOutputsAre ==
  ASSUME NEW o, o = graph.outputs, o \in Seq(Names), ToSet(o) \subseteq ToSet(graph.nodes), ForwardCopy(graph, Forward)
  PROVE  /\ model_outputs = Indices(o)
         /\ \A i \in 1..Len(o) : i \in DOMAIN Forward.outputs /\ Forward.outputs[i] = o[i]
<1>1. PICK r \in Seq(Names) : Forward.outputs = o \o r /\ \A x \in ToSet(r) : x \notin ToSet(graph.nodes)
  BY DEF ForwardCopy
<1>2. \A x \in ToSet(r) : x \notin ToSet(o)
  BY <1>1
<1> DEFINE t == o \o r
<1>3. \A i \in 1..Len(o) : i \in DOMAIN t /\ t[i] = o[i]
  OBVIOUS
<1>4. Only(Indices(t), {i \in DOMAIN t : t[i] \in ToSet(o)}) = Indices(o)
  BY <1>2, FirstIndices
<1>5. Forward.outputs = t
  BY <1>1
<1> HIDE DEF t
<1>6. model_outputs = Only(Indices(t), {i \in DOMAIN t : t[i] \in ToSet(o)})
  BY <1>5 DEF model_outputs
<1> QED BY <1>3, <1>4, <1>5, <1>6

(* What the model computes for its outputs.                                *)
LEMMA ModelReturns ==
  ASSUME NEW i \in DOMAIN program.graph.outputs, Sound(program.graph), IsTraced(program.graph),
         IsGraphOf(program.graph, program), program.graph.outputs[i] \in ToSet(program.graph.nodes)
  PROVE  ModelValues(program)[program.graph.outputs[i]] = ProgramValue[program.outputs[i]]
<1> DEFINE g == program.graph
           N == ToSet(g.nodes)
           given == ModelGiven(program)
           w == ModelValues(program)
           o == g.outputs[i]
           k == program.outputs[i]
<1>1. k \in 1..Size /\ g.operands[o] = <<In(k)>>
  BY DEF IsGraphOf, Size
<1>2. DOMAIN g.node = N /\ o \in N
  BY SoundIs
<1>3. In(k) \in N
  <2>1. ToSet(g.operands[o]) \subseteq N
    BY <1>2, SoundOperands
  <2> HIDE DEF N
  <2>2. In(k) \in ToSet(g.operands[o])
    BY <1>1 DEF ToSet
  <2> QED BY <2>1, <2>2
<1>4. g.node[o].type = "Output" /\ g.node[o].kind = "none"
  <2>1. o \in ToSet(g.outputs)
    BY DEF ToSet
  <2>2. g.node[o].type = "Output"
    BY <2>1 DEF IsTraced
  <2> QED BY <1>2, <2>2 DEF IsTraced
<1>5. w[o] = Computed(g, given, w, o)
  BY <1>2, ModelValuesAre
<1>6. Computed(g, given, w, o) = w[In(k)]
  <2> HIDE DEF g, w, given, o, k
  <2>1. g.node[o].type # "Input" /\ g.node[o].kind \in {"nop", "none"} /\ 1 \in DOMAIN g.operands[o]
        /\ g.operands[o][1] = In(k)
    BY <1>1, <1>4
  <2> QED BY <2>1, NopComputes
<1>7. w[In(k)] = Value(g, given, In(k))
  BY <1>3 DEF ModelValues
<1>8. ProgramValue[k] = Value(g, given, In(k))
  <2> HIDE DEF k
  <2> QED BY <1>1 DEF ProgramValue, ModelGiven
<1> QED BY <1>5, <1>6, <1>7, <1>8

(* The invariants have the property.                                       *)
LEMMA ReturnsModelValues ==
  ASSUME GraphInv, ForwardInv
  PROVE  OutputsCorrect
<1> DEFINE o == graph.outputs
<1> SUFFICES ASSUME stage = "done"
             PROVE  /\ Len(model_outputs) = Len(program.outputs)
                    /\ \A i \in DOMAIN model_outputs :
                          all_outputs[model_outputs[i]] = ProgramValue[program.outputs[i]]
  BY DEF OutputsCorrect, Done
<1> DEFINE given == GivenTo(Forward, forward_inputs)
<1>1. RunsModel(program, graph, Forward, given)
  BY ForwardRuns
<1>2. /\ IsTraced(program.graph) /\ IsGraphOf(program.graph, program) /\ ForwardCopy(graph, Forward)
      /\ program.graph.outputs = o /\ Sound(graph)
  BY <1>1 DEF RunsModel, SameForward
<1>3. o \in Seq(Names)
  BY <1>2, SoundIs
<1>4. \A n \in ToSet(o) : n \in ToSet(graph.nodes) /\ is_forward(graph, n)
  <2>1. PICK V : Returns(graph, V)
    BY DEF GraphInv, Plain
  <2> QED BY <2>1 DEF Returns
<1>5. model_outputs = Indices(o) /\ \A i \in 1..Len(o) : i \in DOMAIN Forward.outputs /\ Forward.outputs[i] = o[i]
  BY <1>2, <1>3, <1>4, ModelOutputsAre
<1>6. /\ Len(model_outputs) = Len(o) /\ DOMAIN model_outputs = 1..Len(o)
      /\ \A i \in 1..Len(o) : model_outputs[i] = i
  BY <1>3, <1>5 DEF Indices
<1>7. ASSUME NEW i \in 1..Len(o) PROVE all_outputs[i] = ProgramValue[program.outputs[i]]
  <2>1. all_outputs = [j \in DOMAIN Forward.outputs |-> Value(Forward, given, Forward.outputs[j])]
    BY DEF all_outputs, RunProgram, GivenTo
  <2> HIDE DEF given
  <2>2. all_outputs[i] = Value(Forward, given, o[i])
    BY <1>5, <2>1
  <2>3. o[i] \in ToSet(graph.nodes) /\ is_forward(graph, o[i])
    BY <1>3, <1>4, SeqElements
  <2>4. Value(Forward, given, o[i]) = ModelValues(program)[o[i]]
    BY <1>1, <2>3, ForwardComputes
  <2>5. o[i] \in ToSet(program.graph.nodes)
    BY <2>3 DEF ForwardInv, SameForward, SameNode
  <2>6. Sound(program.graph)
    <3>1. ReturnsOps(program.graph)
      BY OutputsAssumption DEF ForwardInv
    <3> QED BY <1>2, <3>1, TracedIsGood DEF Good
  <2>7. i \in DOMAIN o
    BY <1>3
  <2>8. ModelValues(program)[o[i]] = ProgramValue[program.outputs[i]]
    <3> HIDE DEF o
    <3> QED BY <1>2, <2>5, <2>6, <2>7, ModelReturns
  <2> QED BY <2>2, <2>4, <2>8
<1>8. Len(o) = Len(program.outputs)
  BY <1>2 DEF IsGraphOf
<1> HIDE DEF o
<1> QED BY <1>6, <1>7, <1>8

(* Of all that forward puts out the user gets the outputs of the model, in *)
(* their order and with the values the model computes                      *)
(* (compiled_graph_state.py __call__, extract_forward_graph in             *)
(* split_graph.cpp).                                                       *)
THEOREM ForwardReturnsModel == Spec => []OutputsCorrect
<1>1. GraphInv /\ ForwardInv => OutputsCorrect
  BY ReturnsModelValues
<1> QED BY <1>1, GraphInvariant, ForwardKept, PTL

=============================================================================
