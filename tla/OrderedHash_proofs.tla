------------------------- MODULE OrderedHash_proofs -------------------------
(***************************************************************************)
(* Every operation keeps the table sound: n buckets in robin hood order    *)
(* that hold the values, one bucket each, and a free one if there are more *)
(* than two.  From that the invariants of the table, and that it is an     *)
(* ordered map and an ordered set.                                         *)
(***************************************************************************)
EXTENDS OrderedHashTables_proofs

(* The three kinds of calls that the code gets wrong are not made: erasing *)
(* a range while an entry is wrapped around, inserting inside among        *)
(* displaced entries, and rehashing an empty table to no buckets.          *)
Careful == ~RangeErase /\ ~InsertInside /\ ~ShrinkToNone

(* There are n buckets, and what is derived from n is.                     *)
SoundTable(n) ==
  /\ n = 0 \/ IsCount(n)
  /\ Sound(buckets, values, n)
  /\ first = IF n = 0 THEN "static" ELSE "data"
  /\ threshold = (n * load) \div 100

Others ==
  /\ load \in 10..95
  /\ grow \in BOOLEAN
  /\ hung = FALSE
  /\ answer \in Entries \cup {NotFound}

TableInv == (\E n \in Nat : SoundTable(n)) /\ Others

-----------------------------------------------------------------------------
(* Load factors.                                                           *)

LEMMA ThresholdIs ==
  ASSUME NEW n \in Nat, NEW l \in 10..95
  PROVE  /\ (n * l) \div 100 \in Nat
         /\ (n * l) \div 100 <= n
         /\ n > 0 => (n * l) \div 100 < n
<1> DEFINE a == n * l
           c == 95 - l
<1>1. n * c = n * 95 - n * l
  BY Distributes
<1>2. c \in Nat /\ n * c \in Nat /\ a \in Nat
  OBVIOUS
<1>3. a <= n * 95
  <2>1. \A x, y, z \in Nat : x = y - z => z <= y
    OBVIOUS
  <2>2. n * 95 \in Nat
    OBVIOUS
  <2> HIDE DEF c
  <2> QED BY <1>1, <1>2, <2>1, <2>2
<1> HIDE DEF a, c
<1>4. a \div 100 \in Nat /\ a % 100 \in 0..99 /\ a = 100 * (a \div 100) + (a % 100)
  BY <1>2, DivMod
<1>5. a \div 100 <= n /\ (n > 0 => a \div 100 < n)
  <2> DEFINE q == a \div 100
             r == a % 100
  <2>1. q \in Nat /\ r \in 0..99 /\ a = 100 * q + r
    BY <1>4
  <2> HIDE DEF q, r
  <2>2. q <= n /\ (n > 0 => q < n)
    BY <1>2, <1>3, <2>1
  <2> QED BY <2>2 DEF q
<1> QED BY <1>4, <1>5 DEF a

LEMMA CeilIs ==
  ASSUME NEW n \in Nat, NEW l \in 10..95
  PROVE  Ceil(n, l) \in Nat /\ (n > 0 => Ceil(n, l) > n)
<1> DEFINE a == n * 100 + l - 1
           c == a \div l
<1>1. a \in Nat /\ l \in Nat \ {0} /\ l <= 95
  OBVIOUS
<1>2. c \in Nat /\ a % l \in 0..(l - 1) /\ a = l * c + (a % l)
  <2> HIDE DEF a
  <2> QED BY <1>1, DivMod
<1>3. ASSUME n > 0, c <= n PROVE FALSE
  <2> DEFINE x == n - c
             y == 95 - l
             r == a % l
  <2>1. x \in Nat /\ y \in Nat /\ r \in 0..(l - 1)
    BY <1>1, <1>2, <1>3
  <2> HIDE DEF r, a, c
  <2>2. l * x = l * n - l * c /\ n * y = n * 95 - n * l
    BY <1>1, <1>2, Distributes
  <2>3. l * x \in Nat /\ n * y \in Nat /\ l * c \in Nat /\ l * n \in Nat /\ l * n = n * l
    BY <1>1, <1>2, <2>1
  <2> HIDE DEF x, y
  <2>4. l * c <= l * n
    BY <2>2, <2>3
  <2>5. n * l <= n * 95
    BY <2>2, <2>3
  <2>6. a <= n * 95 + (l - 1)
    BY <1>1, <1>2, <2>1, <2>3, <2>4, <2>5 DEF r
  <2>7. a = n * 100 + l - 1
    BY DEF a
  <2> QED BY <1>1, <1>3, <2>6, <2>7
<1>4. n > 0 => c > n
  <2> HIDE DEF c
  <2> QED BY <1>2, <1>3
<1> HIDE DEF c, a
<1>5. Ceil(n, l) = c
  BY DEF Ceil, c, a
<1> QED BY <1>2, <1>4, <1>5

-----------------------------------------------------------------------------
(* The buckets as the operations see them.                                 *)

LEMMA SoundIs ==
  ASSUME NEW n \in Nat, SoundTable(n)
  PROVE  /\ Size(buckets) = n
         /\ buckets \in Tables(n) /\ DOMAIN buckets = Slots(n)
         /\ values \in Seq(Entries) /\ Len(values) \in Nat /\ Len(values) <= n
         /\ Len(values) <= MaxSize
         /\ n # 0 => IsCount(n)
         /\ n = 0 => values = <<>>
<1>1. /\ buckets \in Tables(n) /\ values \in Seq(Entries) /\ Len(values) <= n
      /\ Len(values) <= MaxSize
  BY DEF SoundTable, Sound
<1>2. DOMAIN buckets = Slots(n)
  BY <1>1 DEF Tables
<1>3. Len(values) \in Nat
  BY <1>1
<1>4. n = 0 => values = <<>>
  BY <1>1, <1>3
<1> QED BY <1>1, <1>2, <1>3, <1>4, SizeIs DEF SoundTable

(* A search finds the bucket of a key that is there, and nothing else.     *)
LEMMA FoundIs ==
  ASSUME NEW n \in Nat, SoundTable(n), NEW k \in Keys
  PROVE  /\ Found(k) <=> \E p \in DOMAIN values : values[p][1] = k
         /\ Found(k) =>
              LET i == find_key(buckets, values, k) IN
              /\ n # 0 /\ i \in Slots(n) /\ buckets[i].full
              /\ buckets[i].index \in 0..(Len(values) - 1)
              /\ buckets[i].index + 1 \in DOMAIN values
              /\ values[buckets[i].index + 1][1] = k
<1>1. CASE n = 0
  <2>1. Size(buckets) = 0 /\ values = <<>>
    BY <1>1, SoundIs
  <2>2. ~Found(k)
    BY <2>1 DEF Found, find_key
  <2> QED BY <2>1, <2>2
<1>2. CASE n # 0
  <2> DEFINE i == find_key(buckets, values, k)
  <2>1. IsCount(n) /\ n \in Nat \ {0} /\ Sound(buckets, values, n)
    BY <1>2 DEF SoundTable
  <2>2. /\ buckets \in Tables(n) /\ Ordered(buckets, n) /\ values \in Seq(Entries)
        /\ IndexedIn(buckets, values, n)
    BY <2>1 DEF Sound
  <2>3. /\ Found(k) <=> \E p \in DOMAIN values : values[p][1] = k
        /\ Found(k) =>
              /\ i \in Slots(n) /\ buckets[i].full
              /\ buckets[i].index + 1 \in DOMAIN values
              /\ values[buckets[i].index + 1][1] = k
    BY <2>1, <2>2, FindKeyIs DEF Found
  <2>4. Found(k) => buckets[i].index \in 0..(Len(values) - 1)
    BY <2>1, <2>3, SoundRoom
  <2> QED BY <1>2, <2>3, <2>4
<1> QED BY <1>1, <1>2

(* An empty table.                                                         *)
LEMMA EmptySound ==
  ASSUME NEW n \in Nat, NEW b, b = [i \in Slots(n) |-> Empty]
  PROVE  Sound(b, <<>>, n)
<1>1. b \in Tables(n) /\ \A i \in Slots(n) : ~b[i].full
  BY Numbers DEF Tables
<1>2. <<>> \in Seq(Entries) /\ Len(<<>>) = 0 /\ DOMAIN <<>> = {}
  OBVIOUS
<1>3. Ordered(b, n)
  <2>1. \A i \in Slots(n) : Rank(b, i, n) = 0
    BY <1>1 DEF Rank
  <2>2. \A i \in Slots(n) : Fwd(i, n) \in Slots(n)
    BY DEF Fwd, Slots
  <2> QED BY <2>1, <2>2 DEF Ordered
<1>4. IndexedIn(b, <<>>, n)
  <2>1. 0..(Len(<<>>) - 1) = {}
    BY <1>2
  <2> QED BY <1>1, <2>1 DEF IndexedIn, Distinct
<1>5. DistinctKeys(<<>>)
  BY <1>2 DEF DistinctKeys
<1> QED BY <1>1, <1>2, <1>3, <1>4, <1>5, Numbers DEF Sound

LEMMA RehashSound ==
  ASSUME NEW n \in Nat, NEW b, NEW vs, Sound(b, vs, n), NEW c \in Nat \ {0}, Len(vs) <= c,
         c > 2 => Len(vs) < c
  PROVE  Sound(Redistributed(b, c), vs, c)
<1>1. /\ b \in Tables(n) /\ vs \in Seq(Entries) /\ IndexedIn(b, vs, n) /\ DistinctKeys(vs)
      /\ Len(vs) <= MaxSize
  BY DEF Sound
<1>2. /\ Redistributed(b, c) \in Tables(c) /\ Ordered(Redistributed(b, c), c)
      /\ IndexedIn(Redistributed(b, c), vs, c)
  BY <1>1, RehashKeeps
<1> QED BY <1>1, <1>2 DEF Sound

(* The values keep their keys.                                             *)
LEMMA AssignSound ==
  ASSUME NEW n \in Nat, NEW b, NEW vs, Sound(b, vs, n), NEW i \in DOMAIN vs, NEW v \in Vals
  PROVE  Sound(b, [vs EXCEPT ![i] = <<vs[i][1], v>>], n)
<1> DEFINE e == <<vs[i][1], v>>
           w == [vs EXCEPT ![i] = e]
           S == Entries
<1>1. vs \in Seq(S) /\ e \in S /\ e[1] = vs[i][1]
  BY DEF Sound, Entries
<1> HIDE DEF e, S
<1>2. w \in Seq(S) /\ Len(w) = Len(vs) /\ DOMAIN w = DOMAIN vs
  BY <1>1
<1>3. \A p \in DOMAIN vs : w[p][1] = vs[p][1]
  BY <1>1
<1> HIDE DEF w
<1>4. IndexedIn(b, w, n)
  <2>1. IndexedIn(b, vs, n) /\ b \in Tables(n)
    BY DEF Sound
  <2>2. ASSUME NEW x \in Slots(n), b[x].full PROVE Belongs(b, w, x)
    <3>1. Belongs(b, vs, x)
      BY <2>1, <2>2 DEF IndexedIn
    <3>2. b[x].index \in Nat
      BY <2>1, Numbers DEF Tables, Cell
    <3>3. b[x].index + 1 \in DOMAIN vs
      BY <1>1, <3>1, <3>2 DEF Belongs
    <3> QED BY <1>2, <1>3, <3>1, <3>3 DEF Belongs
  <2> QED BY <1>2, <2>1, <2>2 DEF IndexedIn
<1>5. DistinctKeys(w)
  <2>1. DistinctKeys(vs)
    BY DEF Sound
  <2> QED BY <1>2, <1>3, <2>1 DEF DistinctKeys
<1> QED BY <1>2, <1>4, <1>5 DEF Sound, w, S, e

-----------------------------------------------------------------------------
(* Growing and rehashing.                                                  *)

LEMMA CountIs ==
  ASSUME NEW m \in Nat, RoundUp(m) <= MaxBuckets
  PROVE  IsCount(RoundUp(m)) /\ RoundUp(m) >= m
BY RoundUpIs DEF IsCount

(* rehash_impl to at least one bucket and more than there are values.      *)
LEMMA RehashIs ==
  ASSUME NEW n \in Nat, SoundTable(n), Others, NEW m \in Nat \ {0}, Len(values) < m,
         Size(rehash_impl(m).b) <= MaxBuckets
  PROVE  LET c == RoundUp(m) IN
         /\ IsCount(c) /\ c >= m
         /\ Size(rehash_impl(m).b) = c
         /\ Sound(rehash_impl(m).b, values, c)
         /\ rehash_impl(m).first = "data"
         /\ rehash_impl(m).threshold = (c * load) \div 100
         /\ rehash_impl(m).grow \in BOOLEAN
         /\ c = n => rehash_impl(m).b = buckets
<1> DEFINE c == RoundUp(m)
           r == rehash_impl(m)
<1>1. c \in Nat \ {0} /\ c >= m /\ c > Len(values)
  <2>1. RoundUp(m) \in Nat \ {0} /\ RoundUp(m) >= m
    BY RoundUpIs
  <2>2. Len(values) \in Nat
    BY SoundIs
  <2> HIDE DEF c
  <2> QED BY <2>1, <2>2 DEF c
<1>2. Size(buckets) = n /\ Sound(buckets, values, n)
  BY SoundIs DEF SoundTable
<1>3. r = IF c = n
          THEN [b |-> buckets, grow |-> grow, threshold |-> threshold, first |-> first]
          ELSE [b |-> Redistributed(buckets, c), grow |-> FALSE,
                threshold |-> (c * load) \div 100, first |-> "data"]
  <2>1. m > 0
    OBVIOUS
  <2>2. (IF m > 0 THEN RoundUp(m) ELSE 0) = c
    BY <2>1
  <2>3. Size(buckets) = n
    BY <1>2
  <2> HIDE DEF c
  <2> QED BY <2>2, <2>3, Zenon DEF rehash_impl
<1> HIDE DEF r, c
<1>4. CASE c = n
  <2>1. r = [b |-> buckets, grow |-> grow, threshold |-> threshold, first |-> first]
    BY <1>3, <1>4
  <2>2. first = "data" /\ threshold = (c * load) \div 100 /\ IsCount(c)
    BY <1>1, <1>4 DEF SoundTable
  <2>3. grow \in BOOLEAN
    BY DEF Others
  <2> QED BY <1>1, <1>2, <1>4, <2>1, <2>2, <2>3 DEF r, c
<1>5. CASE c # n
  <2>1. r = [b |-> Redistributed(buckets, c), grow |-> FALSE,
             threshold |-> (c * load) \div 100, first |-> "data"]
    BY <1>3, <1>5
  <2>2. Len(values) <= c /\ (c > 2 => Len(values) < c)
    <3>1. Len(values) \in Nat
      BY SoundIs
    <3> QED BY <1>1, <3>1
  <2>3. Sound(r.b, values, c)
    <3>1. Sound(Redistributed(buckets, c), values, c)
      BY <1>1, <1>2, <2>2, RehashSound
    <3> QED BY <2>1, <3>1
  <2>4. Size(r.b) = c
    <3>1. DOMAIN r.b = Slots(c)
      BY <2>3 DEF Sound, Tables
    <3> QED BY <1>1, <3>1, SizeIs
  <2>5. IsCount(c)
    BY <2>4, CountIs DEF r, c
  <2>6. r.first = "data" /\ r.threshold = (c * load) \div 100 /\ r.grow \in BOOLEAN
    BY <2>1
  <2> QED BY <1>1, <1>5, <2>3, <2>4, <2>5, <2>6 DEF r, c
<1> QED BY <1>4, <1>5

(* Growing in time leaves room for one more.                               *)
Room(b, m) ==
  /\ IsCount(m)
  /\ Sound(b, values, m)
  /\ Len(values) < m
  /\ m > 2 => Len(values) + 1 < m

LEMMA GrowIs ==
  ASSUME NEW n \in Nat, SoundTable(n), Others, Size(grow_on_high_load.b) <= MaxBuckets
  PROVE  \E m \in Nat \ {0} :
           /\ Room(grow_on_high_load.b, m)
           /\ Size(grow_on_high_load.b) = m
           /\ grow_on_high_load.first = "data"
           /\ grow_on_high_load.threshold = (m * load) \div 100
           /\ grow_on_high_load.grow \in BOOLEAN
           /\ m = n => grow_on_high_load.b = buckets
<1> DEFINE L == Len(values)
           g == grow_on_high_load
<1>1. Size(buckets) = n /\ Sound(buckets, values, n) /\ L \in Nat /\ L <= n
  BY SoundIs DEF SoundTable
<1>2. CASE ~(grow \/ L >= threshold)
  <2>1. g = [b |-> buckets, grow |-> grow, threshold |-> threshold, first |-> first]
    BY <1>2 DEF grow_on_high_load
  <2>2. /\ threshold = (n * load) \div 100 /\ threshold \in Nat
        /\ threshold <= n /\ (n > 0 => threshold < n)
    BY ThresholdIs DEF SoundTable, Others
  <2>3. L < threshold
    BY <1>1, <1>2, <2>2
  <2>4. n # 0 /\ L + 1 < n /\ L < n
    BY <1>1, <2>2, <2>3
  <2>5. IsCount(n) /\ first = "data" /\ grow \in BOOLEAN
    BY <2>4 DEF SoundTable, Others
  <2>6. Room(g.b, n)
    BY <1>1, <2>1, <2>4, <2>5 DEF Room
  <2> HIDE DEF g
  <2>7. n \in Nat \ {0}
    BY <2>4
  <2>8. /\ Room(g.b, n) /\ Size(g.b) = n /\ g.first = "data"
        /\ g.threshold = (n * load) \div 100
        /\ g.grow \in BOOLEAN /\ (n = n => g.b = buckets)
    BY <1>1, <2>1, <2>2, <2>5, <2>6
  <2> QED BY <2>7, <2>8 DEF g
<1>3. CASE grow \/ L >= threshold
  <2> DEFINE x == IF n = 0 THEN 1 ELSE n * 2
             r == rehash_impl(x)
             m == RoundUp(x)
  <2>1. g = [r EXCEPT !.grow = FALSE]
    BY <1>1, <1>3 DEF grow_on_high_load
  <2>2. \E f1, f2, f3, f4 : r = [b |-> f1, grow |-> f2, threshold |-> f3, first |-> f4]
    BY DEF rehash_impl
  <2>3. g.b = r.b /\ g.first = r.first /\ g.threshold = r.threshold /\ g.grow = FALSE
    <3> HIDE DEF r, g
    <3> QED BY <2>1, <2>2
  <2>4. x \in Nat \ {0} /\ L < x /\ x > n
    <3> HIDE DEF L
    <3> QED BY <1>1
  <2>5. Size(r.b) <= MaxBuckets
    BY <2>3
  <2> HIDE DEF x
  <2>6. /\ IsCount(m) /\ m >= x /\ Size(r.b) = m /\ Sound(r.b, values, m) /\ r.first = "data"
        /\ r.threshold = (m * load) \div 100
    BY <2>4, <2>5, RehashIs
  <2> HIDE DEF r, g, m
  <2>7. m \in Nat \ {0} /\ L < m /\ m # n
    BY <1>1, <2>4, <2>6 DEF IsCount
  <2>8. m > 2 => L + 1 < m
    <3> HAVE m > 2
    <3>1. CASE n > 2
      <4>1. L < n
        BY <1>1, <3>1 DEF Sound
      <4> QED BY <1>1, <2>4, <2>6, <2>7, <4>1
    <3>2. CASE n <= 1
      BY <1>1, <2>7, <3>2
    <3>3. CASE n = 2
      <4>1. x = 4
        BY <3>3 DEF x
      <4> QED BY <1>1, <2>6, <2>7, <3>3, <4>1
    <3> QED BY <3>1, <3>2, <3>3
  <2>9. Room(g.b, m)
    BY <2>3, <2>6, <2>7, <2>8 DEF Room
  <2>10. /\ Size(g.b) = m /\ g.first = "data" /\ g.threshold = (m * load) \div 100
         /\ g.grow \in BOOLEAN /\ (m = n => g.b = buckets)
    BY <2>3, <2>6, <2>7
  <2> QED BY <2>7, <2>9, <2>10 DEF g
<1> QED BY <1>2, <1>3

-----------------------------------------------------------------------------
(* The operations, one by one.                                             *)

LEMMA NextTable ==
  ASSUME NEW m \in Nat, m = 0 \/ IsCount(m), Sound(buckets', values', m),
         first' = IF m = 0 THEN "static" ELSE "data",
         threshold' = (m * load') \div 100, Others'
  PROVE  TableInv'
BY DEF TableInv, SoundTable

LEMMA InitTable == Init => TableInv
<1> HAVE Init
<1>1. PICK n \in InitBuckets :
        buckets = [i \in 0..((IF n = 0 THEN 0 ELSE RoundUp(n)) - 1) |-> Empty]
  BY DEF Init
<1> DEFINE c == IF n = 0 THEN 0 ELSE RoundUp(n)
<1>2. c \in Nat /\ (c = 0 \/ IsCount(c))
  <2>1. CASE n = 0
    BY <2>1
  <2>2. CASE n # 0
    <3>1. n \in Nat /\ n \in InitBuckets \ {0} /\ RoundUp(n) <= MaxBuckets
      BY <2>2, HashAssumption
    <3>2. IsCount(RoundUp(n)) /\ c = RoundUp(n)
      BY <2>2, <3>1, CountIs
    <3> HIDE DEF c
    <3> QED BY <3>2 DEF IsCount
  <2> QED BY <2>1, <2>2
<1>3. buckets = [i \in Slots(c) |-> Empty] /\ values = <<>>
  BY <1>1 DEF Slots, Init
<1> HIDE DEF c
<1>4. Sound(buckets, values, c)
  BY <1>2, <1>3, EmptySound
<1>5. Size(buckets) = c
  BY <1>2, <1>3, SizeIs
<1>6. load \in 10..95
  <2>1. PICK ml \in Loads : load = Clamped(ml)
    BY DEF Init
  <2>2. ml \in Nat
    BY HashAssumption
  <2> QED BY <2>1, <2>2 DEF Clamped
<1>7. first = IF c = 0 THEN "static" ELSE "data"
  BY <1>5 DEF Init
<1>8. threshold = (c * load) \div 100
  BY <1>5 DEF Init, Threshold
<1>9. grow = FALSE /\ hung = FALSE /\ answer = NotFound
  BY DEF Init
<1>10. Others
  BY <1>6, <1>9 DEF Others
<1>11. SoundTable(c)
  BY <1>2, <1>4, <1>7, <1>8 DEF SoundTable
<1> QED BY <1>2, <1>10, <1>11 DEF TableInv

LEMMA MaxLoadFactorTable ==
  ASSUME TableInv, NEW ml \in Loads, MaxLoadFactor(ml)
  PROVE  TableInv'
<1>1. PICK n \in Nat : SoundTable(n)
  BY DEF TableInv
<1>2. load' \in 10..95
  <2>1. ml \in Nat
    BY HashAssumption
  <2> QED BY <2>1 DEF MaxLoadFactor, Clamped
<1>3. Size(buckets) = n
  BY <1>1, SoundIs
<1>4. threshold' = (n * load') \div 100
  BY <1>3 DEF MaxLoadFactor, Threshold
<1>5. UNCHANGED <<buckets, values, first, grow, hung, answer>>
  BY DEF MaxLoadFactor
<1>6. Others'
  BY <1>2, <1>5 DEF TableInv, Others
<1> QED BY <1>1, <1>4, <1>5, <1>6, NextTable DEF SoundTable

LEMMA MovedFromTable ==
  ASSUME TableInv, MovedFrom
  PROVE  TableInv'
<1>1. buckets' = <<>> /\ values' = <<>> /\ first' = "static" /\ threshold' = 0
  BY DEF MovedFrom
<1>2. Sound(buckets', values', 0)
  <2>1. Slots(0) = {}
    BY DEF Slots
  <2>2. buckets' = [i \in Slots(0) |-> Empty]
    BY <1>1, <2>1
  <2> QED BY <1>1, <2>2, EmptySound
<1>3. Others'
  BY DEF MovedFrom, TableInv, Others
<1>4. (0 * load') \div 100 = 0
  <2>1. load' \in 10..95
    BY <1>3 DEF Others
  <2>2. (0 * load') \div 100 \in Nat /\ (0 * load') \div 100 <= 0
    BY <2>1, ThresholdIs
  <2> QED BY <2>2
<1> QED BY <1>1, <1>2, <1>3, <1>4, NextTable

LEMMA ClearTable ==
  ASSUME TableInv, Clear
  PROVE  TableInv'
<1>1. PICK n \in Nat : SoundTable(n)
  BY DEF TableInv
<1>2. buckets' = [i \in Slots(n) |-> Empty] /\ values' = <<>>
  BY <1>1, SoundIs DEF Clear
<1>3. Sound(buckets', values', n)
  BY <1>2, EmptySound
<1>4. Others'
  BY DEF Clear, TableInv, Others
<1>5. UNCHANGED <<first, load, threshold>>
  BY DEF Clear
<1> QED BY <1>1, <1>3, <1>4, <1>5, NextTable DEF SoundTable

(* A rehash to a positive number of buckets that is not below the number of*)
(* values by the load factor.                                              *)
LEMMA RehashedTable ==
  ASSUME TableInv, NEW x \in Nat, x > 0, x >= Ceil(Len(values), load), Rehashed(x)
  PROVE  TableInv'
<1>1. PICK n \in Nat : SoundTable(n)
  BY DEF TableInv
<1>2. Len(values) < x
  <2>1. Len(values) \in Nat /\ load \in 10..95
    BY <1>1, SoundIs DEF TableInv, Others
  <2>2. /\ Ceil(Len(values), load) \in Nat
        /\ Len(values) > 0 => Ceil(Len(values), load) > Len(values)
    BY <2>1, CeilIs
  <2> QED BY <2>1, <2>2
<1>3. /\ Size(rehash_impl(x).b) <= MaxBuckets
      /\ buckets' = rehash_impl(x).b /\ grow' = rehash_impl(x).grow
      /\ threshold' = rehash_impl(x).threshold /\ first' = rehash_impl(x).first
      /\ UNCHANGED <<values, load, hung, answer>>
  BY DEF Rehashed
<1> DEFINE c == RoundUp(x)
<1>4. /\ IsCount(c)
      /\ Sound(rehash_impl(x).b, values, c)
      /\ rehash_impl(x).first = "data"
      /\ rehash_impl(x).threshold = (c * load) \div 100
      /\ rehash_impl(x).grow \in BOOLEAN
  <2>1. x \in Nat \ {0} /\ Others
    BY DEF TableInv
  <2> QED BY <1>1, <1>2, <1>3, <2>1, RehashIs
<1> HIDE DEF c
<1>5. Others'
  BY <1>3, <1>4 DEF TableInv, Others
<1>6. c \in Nat /\ c # 0
  BY <1>4 DEF IsCount
<1> QED BY <1>3, <1>4, <1>5, <1>6, NextTable

LEMMA LargerIs ==
  ASSUME NEW a \in Nat, NEW b \in Nat
  PROVE  Larger(a, b) \in Nat /\ Larger(a, b) >= a /\ Larger(a, b) >= b
BY DEF Larger

LEMMA RehashTable ==
  ASSUME Careful, TableInv, NEW m \in Counts, Rehash(m)
  PROVE  TableInv'
<1> DEFINE x == Larger(m, Ceil(Len(values), load))
<1>1. PICK n \in Nat : SoundTable(n)
  BY DEF TableInv
<1>2. Ceil(Len(values), load) \in Nat
  BY <1>1, SoundIs, CeilIs DEF TableInv, Others
<1>3. m \in Nat
  BY HashAssumption
<1>4. x \in Nat /\ x >= Ceil(Len(values), load)
  BY <1>2, <1>3, LargerIs
<1>5. Rehashed(x)
  BY DEF Rehash
<1> HIDE DEF x
<1>6. x > 0
  BY <1>5 DEF Rehashed, Careful
<1> QED BY <1>4, <1>5, <1>6, RehashedTable

LEMMA ReserveTable ==
  ASSUME Careful, TableInv, NEW m \in Counts, Reserve(m)
  PROVE  TableInv'
<1> DEFINE x == Larger(Ceil(m, load), Ceil(Len(values), load))
<1>1. PICK n \in Nat : SoundTable(n)
  BY DEF TableInv
<1>2. Ceil(Len(values), load) \in Nat
  BY <1>1, SoundIs, CeilIs DEF TableInv, Others
<1>3. Ceil(m, load) \in Nat
  <2>1. m \in Nat
    BY HashAssumption
  <2> QED BY <2>1, CeilIs DEF TableInv, Others
<1>4. x \in Nat /\ x >= Ceil(Len(values), load)
  BY <1>2, <1>3, LargerIs
<1>5. Rehashed(x)
  BY DEF Reserve
<1> HIDE DEF x
<1>6. x > 0
  BY <1>5 DEF Rehashed, Careful
<1> QED BY <1>4, <1>5, <1>6, RehashedTable

LEMMA FindTable ==
  ASSUME TableInv, NEW k \in Keys, Find(k)
  PROVE  TableInv'
<1>1. PICK n \in Nat : SoundTable(n)
  BY DEF TableInv
<1>2. answer' \in Entries \cup {NotFound}
  <2> DEFINE i == buckets[find_key(buckets, values, k)].index + 1
  <2>1. answer' = IF Found(k) THEN values[i] ELSE NotFound
    BY DEF Find
  <2>2. Found(k) => i \in DOMAIN values
    BY <1>1, FoundIs
  <2>3. values \in Seq(Entries)
    BY <1>1, SoundIs
  <2> HIDE DEF i
  <2>4. Found(k) => values[i] \in Entries
    BY <2>2, <2>3
  <2> QED BY <2>1, <2>4
<1>3. UNCHANGED <<buckets, values, first, grow, load, threshold, hung>>
  BY DEF Find
<1>4. Others'
  BY <1>2, <1>3 DEF TableInv, Others
<1> QED BY <1>1, <1>3, <1>4, NextTable DEF SoundTable

LEMMA AssignTable ==
  ASSUME TableInv, NEW k \in Keys, NEW v \in Vals, InsertOrAssign(k, v)
  PROVE  TableInv'
<1>1. PICK n \in Nat : SoundTable(n)
  BY DEF TableInv
<1> DEFINE i == buckets[find_key(buckets, values, k)].index + 1
<1>2. /\ Found(k)
      /\ values' = [values EXCEPT ![i] = <<values[i][1], v>>]
      /\ UNCHANGED <<buckets, first, grow, load, threshold, hung, answer>>
  BY DEF InsertOrAssign
<1>3. i \in DOMAIN values
  BY <1>1, <1>2, FoundIs
<1> HIDE DEF i
<1>4. Sound(buckets, [values EXCEPT ![i] = <<values[i][1], v>>], n)
  <2>1. Sound(buckets, values, n)
    BY <1>1 DEF SoundTable
  <2> QED BY <1>3, <2>1, AssignSound
<1>5. Sound(buckets', values', n)
  BY <1>2, <1>4
<1>6. Others'
  BY <1>2 DEF TableInv, Others
<1> QED BY <1>1, <1>2, <1>5, <1>6, NextTable DEF SoundTable

LEMMA EraseValueIs ==
  ASSUME NEW n \in Nat \ {0}, NEW b, NEW vs, Sound(b, vs, n), NEW i \in Slots(n), b[i].full,
         erase_value_from_bucket(b, i, vs)
  PROVE  /\ values' = Map!Without(vs, b[i].index, b[i].index + 1)
         /\ Sound(buckets', values', n)
         /\ hung' = FALSE
<1> DEFINE s == Renumbered(b, i, vs)
<1>1. /\ values' = Map!Without(vs, b[i].index, b[i].index + 1)
      /\ buckets' = backward_shift(Emptied(s.b, i), i)
      /\ hung' = s.hung
  BY DEF erase_value_from_bucket, Renumbered, Emptied
<1>2. /\ ~s.hung
      /\ Sound(backward_shift(Emptied(s.b, i), i), Map!Without(vs, b[i].index, b[i].index + 1), n)
  BY EraseSound
<1>3. s.hung \in BOOLEAN
  <2> DEFINE p == b[i].index
             q == p + 1
             w == Map!Without(vs, p, q)
             m == 0 - 1
  <2>1. b \in Tables(n) /\ vs \in Seq(Entries) /\ Len(vs) \in Nat /\ Len(vs) <= MaxSize
    BY DEF Sound
  <2>2. p \in 0..(Len(vs) - 1)
    BY EraseSound
  <2>3. m \in Int
    OBVIOUS
  <2>4. s = shift_indexes(b, w, p, m)
    BY DEF Renumbered
  <2>5. p \in Nat /\ q \in Nat /\ p <= q /\ q <= Len(vs) /\ q - p = 1 /\ p <= Len(vs) - 1
    <3> HIDE DEF p
    <3> QED BY <2>1, <2>2
  <2> HIDE DEF s, p, q, m
  <2>6. w \in Seq(Entries) /\ Len(w) = Len(vs) - (q - p)
    <3>1. vs \in Seq(Entries) /\ p \in Nat /\ q \in Nat /\ p <= q /\ q <= Len(vs)
      BY <2>1, <2>5
    <3> QED BY <3>1, WithoutIs
  <2> HIDE DEF w
  <2>7. Len(w) <= MaxSize /\ p \in 0..Len(w)
    BY <2>1, <2>5, <2>6, Numbers
  <2> QED BY <2>1, <2>3, <2>4, <2>6, <2>7, ShiftIndexesType
<1> QED BY <1>1, <1>2, <1>3

(* What the erasures do to the values.                                     *)
Cut == \E i, j \in 0..Len(values) : i < j /\ values' = Map!Without(values, i, j)

LastTakes == \E i \in 0..(Len(values) - 1) : values' = Map!SwappedOut(values, i)

LEMMA EraseKeyTable ==
  ASSUME TableInv, NEW k \in Keys, EraseKey(k)
  PROVE  TableInv' /\ Cut
<1>1. PICK n \in Nat : SoundTable(n)
  BY DEF TableInv
<1> DEFINE i == find_key(buckets, values, k)
           p == buckets[i].index
<1>2. /\ Found(k) /\ erase_value_from_bucket(buckets, i, values)
      /\ UNCHANGED <<first, grow, load, threshold, answer>>
  BY DEF EraseKey
<1>3. n # 0 /\ i \in Slots(n) /\ buckets[i].full /\ p \in 0..(Len(values) - 1)
  BY <1>1, <1>2, FoundIs
<1> HIDE DEF i
<1>4. n \in Nat \ {0} /\ Sound(buckets, values, n)
  BY <1>1, <1>3 DEF SoundTable
<1>5. /\ values' = Map!Without(values, p, p + 1)
      /\ Sound(buckets', values', n)
      /\ hung' = FALSE
  BY <1>2, <1>3, <1>4, EraseValueIs
<1> HIDE DEF p
<1>6. Others'
  BY <1>2, <1>5 DEF TableInv, Others
<1>7. TableInv'
  BY <1>1, <1>2, <1>5, <1>6, NextTable DEF SoundTable
<1>8. Cut
  <2> DEFINE q == p + 1
  <2>1. Len(values) \in Nat
    BY <1>1, SoundIs
  <2>2. p \in 0..Len(values) /\ q \in 0..Len(values) /\ p < q
    BY <1>3, <2>1
  <2>3. values' = Map!Without(values, p, q)
    BY <1>5
  <2> HIDE DEF q
  <2> QED BY <2>2, <2>3 DEF Cut
<1> QED BY <1>7, <1>8

LEMMA EraseRangeTable ==
  ASSUME Careful, TableInv, NEW i \in 0..Len(values), NEW j \in 0..Len(values), EraseRange(i, j)
  PROVE  TableInv' /\ Cut
<1>1. PICK n \in Nat : SoundTable(n)
  BY DEF TableInv
<1>2. /\ i < j
      /\ ~buckets[0].full \/ Distance(buckets, 0) = 0
      /\ values' = Map!Without(values, i, j)
      /\ buckets' = range_erase(buckets, i, j)
      /\ UNCHANGED <<first, grow, load, threshold, hung, answer>>
  BY DEF EraseRange, Careful
<1>3. Cut
  BY <1>2 DEF Cut
<1>4. Len(values) \in Nat /\ Len(values) <= n /\ buckets \in Tables(n)
  BY <1>1, SoundIs
<1>5. i \in Nat /\ j \in Nat /\ j <= Len(values) /\ n \in Nat \ {0}
  BY <1>2, <1>4
<1>6. Rank(buckets, 0, n) <= 1
  <2>1. 0 \in Slots(n)
    BY <1>5 DEF Slots
  <2>2. buckets[0].full => Rank(buckets, 0, n) = Distance(buckets, 0) + 1
    BY <1>4, <1>5, <2>1, RankIs, TableIs
  <2>3. ~buckets[0].full => Rank(buckets, 0, n) = 0
    BY DEF Rank
  <2> QED BY <1>2, <2>2, <2>3
<1>7. Sound(buckets, values, n)
  BY <1>1 DEF SoundTable
<1>8. Sound(range_erase(buckets, i, j), Map!Without(values, i, j), n)
  BY <1>2, <1>5, <1>6, <1>7, RangeSound
<1>9. Sound(buckets', values', n)
  BY <1>2, <1>8
<1>10. Others'
  BY <1>2 DEF TableInv, Others
<1>11. TableInv'
  BY <1>1, <1>2, <1>9, <1>10, NextTable DEF SoundTable
<1> QED BY <1>3, <1>11

LEMMA UnorderedEraseTable ==
  ASSUME TableInv, NEW k \in Keys, UnorderedEraseKey(k)
  PROVE  TableInv' /\ (Cut \/ LastTakes)
<1>1. PICK n \in Nat : SoundTable(n)
  BY DEF TableInv
<1> DEFINE i == find_key(buckets, values, k)
           last == Len(values)
           kl == Map!KeyAt(values, last)
           l == find_key(buckets, values, kl)
           p == buckets[i].index
<1>2. /\ Found(k)
      /\ UNCHANGED <<first, grow, load, threshold, answer>>
  BY DEF UnorderedEraseKey
<1>3. \/ kl = k /\ erase_value_from_bucket(buckets, i, values)
      \/ /\ kl # k
         /\ erase_value_from_bucket(
              [buckets EXCEPT ![i].index = buckets[l].index, ![l].index = p], i,
              [values EXCEPT ![p + 1] = values[last], ![last] = values[p + 1]])
  BY DEF UnorderedEraseKey
<1>4. /\ n # 0 /\ i \in Slots(n) /\ buckets[i].full /\ p \in 0..(last - 1)
      /\ p + 1 \in DOMAIN values /\ values[p + 1][1] = k
  BY <1>1, <1>2, FoundIs
<1>5. /\ n \in Nat \ {0} /\ Sound(buckets, values, n) /\ last \in Nat
      /\ values \in Seq(Entries) /\ DOMAIN values = 1..last
  BY <1>1, <1>4, SoundIs DEF SoundTable
<1> SUFFICES /\ Sound(buckets', values', n) /\ hung' = FALSE
             /\ Cut \/ LastTakes
  <2>1. ASSUME hung' = FALSE PROVE Others'
    BY <1>2, <2>1 DEF TableInv, Others
  <2> QED BY <1>1, <1>2, <2>1, NextTable DEF SoundTable
<1>6. CASE kl = k
  <2> HIDE DEF i
  <2>1. /\ values' = Map!Without(values, p, p + 1)
        /\ Sound(buckets', values', n)
        /\ hung' = FALSE
    BY <1>3, <1>4, <1>5, <1>6, EraseValueIs
  <2>2. Cut
    <3> DEFINE q == p + 1
    <3> HIDE DEF p
    <3>1. p \in 0..Len(values) /\ q \in 0..Len(values) /\ p < q
      BY <1>4, <1>5
    <3>2. values' = Map!Without(values, p, q)
      BY <2>1
    <3> HIDE DEF q
    <3> QED BY <3>1, <3>2 DEF Cut
  <2> QED BY <2>1, <2>2
<1>7. CASE kl # k
  <2>1. last \in DOMAIN values /\ last > 0 /\ kl = values[last][1]
    <3> HIDE DEF p, i
    <3> QED BY <1>4, <1>5 DEF Map!KeyAt
  <2>2. kl \in Keys
    <3> HIDE DEF kl, last, p, i
    <3>1. values[last] \in Entries
      BY <1>5, <2>1
    <3> QED BY <2>1, <3>1 DEF Entries
  <2>3. /\ l \in Slots(n) /\ buckets[l].full
        /\ buckets[l].index + 1 \in DOMAIN values
        /\ values[buckets[l].index + 1][1] = kl
    <3> HIDE DEF kl
    <3>1. Found(kl)
      BY <1>1, <2>1, <2>2, FoundIs
    <3> QED BY <1>1, <2>2, <3>1, FoundIs
  <2> HIDE DEF i, l, kl
  <2>4. buckets[l].index + 1 = last
    <3>1. DistinctKeys(values)
      BY <1>5 DEF Sound
    <3> QED BY <2>1, <2>3, <3>1 DEF DistinctKeys
  <2>5. i # l
    BY <1>4, <1>7, <2>3
  <2> DEFINE b == SwapIndexes(buckets, i, l)
             vs == SwapValues(values, p + 1, last)
  <2>6. /\ b[i].full /\ b[i].index = buckets[l].index
        /\ Sound(b, SwapValues(values, p + 1, buckets[l].index + 1), n)
    BY <1>4, <1>5, <2>3, <2>5, SwapSound
  <2>7. Sound(b, vs, n)
    BY <2>4, <2>6
  <2>8. erase_value_from_bucket(b, i, vs)
    BY <1>3, <1>7 DEF SwapIndexes, SwapValues
  <2> HIDE DEF b, vs
  <2>9. /\ values' = Map!Without(vs, b[i].index, b[i].index + 1)
        /\ Sound(buckets', values', n)
        /\ hung' = FALSE
    BY <1>4, <1>5, <2>6, <2>7, <2>8, EraseValueIs
  <2>10. b[i].index = last - 1 /\ b[i].index + 1 = last
    <3>1. buckets[l].index \in Nat
      <4>1. buckets \in Tables(n)
        BY <1>5 DEF Sound
      <4> QED BY <2>3, <4>1, Numbers DEF Tables, Cell
    <3> QED BY <1>5, <2>4, <2>6, <3>1
  <2>11. values' = Map!SwappedOut(values, p)
    <3>1. values' = Map!Without(SwapValues(values, p + 1, last), last - 1, last)
      BY <2>9, <2>10 DEF vs
    <3> HIDE DEF p
    <3> QED BY <1>4, <1>5, <3>1, SwappedOutIs
  <2>12. LastTakes
    BY <1>4, <2>11 DEF LastTakes
  <2> QED BY <2>9, <2>12
<1> QED BY <1>6, <1>7

LEMMA InsertImplTable ==
  ASSUME TableInv, NEW p \in 0..Len(values), NEW k \in Keys, NEW v \in Vals,
         ~Found(k), Len(values) < MaxSize, insert_impl(p, k, v),
         p = Len(values) \/ Aligned(buckets')
  PROVE  TableInv'
<1>1. PICK n \in Nat : SoundTable(n)
  BY DEF TableInv
<1> DEFINE g == grow_on_high_load
           d == IF Size(g.b) # Size(buckets) THEN 0 ELSE StopAt(buckets, values, k)
           put == PutIn(g.b, p, k, v, d, values)
           sh == Moved(g.b, p, k, v, d, values)
           vs == Map!InsertedAt(values, p, <<k, v>>)
<1>2. /\ Size(g.b) <= MaxBuckets
      /\ values' = vs
      /\ buckets' = sh.b
      /\ hung' = sh.hung
      /\ grow' = (g.grow \/ put.grow)
      /\ threshold' = g.threshold
      /\ first' = g.first
      /\ UNCHANGED <<load, answer>>
  BY DEF insert_impl, Moved, PutIn, Up
<1> HIDE DEF g
<1>3. PICK m \in Nat \ {0} :
        /\ Room(g.b, m)
        /\ Size(g.b) = m
        /\ g.first = "data"
        /\ g.threshold = (m * load) \div 100
        /\ g.grow \in BOOLEAN
        /\ m = n => g.b = buckets
  <2>1. Others
    BY DEF TableInv
  <2> QED BY <1>1, <1>2, <2>1, GrowIs DEF g
<1>4. d = 0 \/ d = StopAt(g.b, values, k)
  <2>1. Size(buckets) = n
    BY <1>1, SoundIs
  <2> QED BY <1>3, <2>1
<1> HIDE DEF d
<1>5. /\ IsCount(m) /\ Sound(g.b, values, m) /\ Len(values) < m /\ (m > 2 => Len(values) + 1 < m)
  BY <1>3 DEF Room
<1>6. \A q \in DOMAIN values : values[q][1] # k
  BY <1>1, FoundIs
<1>7. p = Len(values) \/ Aligned(sh.b)
  BY <1>2
<1>8. /\ put.grow \in BOOLEAN
      /\ sh.hung = FALSE
      /\ Sound(sh.b, vs, m)
  BY ZenonT(60), <1>4, <1>5, <1>6, <1>7, InsertSound
<1> HIDE DEF put, sh, vs
<1>9. Others'
  BY <1>2, <1>3, <1>8 DEF TableInv, Others
<1> QED BY <1>2, <1>3, <1>5, <1>8, <1>9, NextTable

LEMMA InsertTable ==
  ASSUME TableInv, NEW k \in Keys, NEW v \in Vals, Insert(k, v)
  PROVE  TableInv'
<1>1. Len(values) \in 0..Len(values)
  BY SoundIs DEF TableInv
<1>2. ~Found(k) /\ Len(values) < MaxSize
  BY DEF Insert
<1> DEFINE p == Len(values)
<1>3. insert_impl(p, k, v) /\ p \in 0..Len(values) /\ p = Len(values)
  BY <1>1 DEF Insert
<1> HIDE DEF p
<1> QED BY <1>2, <1>3, InsertImplTable

LEMMA InsertAtTable ==
  ASSUME Careful, TableInv, NEW p \in 0..Len(values), NEW k \in Keys, NEW v \in Vals,
         InsertAtPosition(p, k, v)
  PROVE  TableInv'
<1>1. ~Found(k) /\ Len(values) < MaxSize /\ insert_impl(p, k, v)
  BY DEF InsertAtPosition
<1>2. p = Len(values) \/ Aligned(buckets')
  BY DEF InsertAtPosition, Aligned, Careful
<1> QED BY <1>1, <1>2, InsertImplTable

LEMMA NextKeeps ==
  Careful /\ TableInv /\ [Next]_vars => TableInv'
<1> SUFFICES ASSUME Careful, TableInv, [Next]_vars PROVE TableInv'
  OBVIOUS
<1>1. ASSUME NEW k \in Keys, NEW v \in Vals, Insert(k, v) PROVE TableInv'
  BY <1>1, InsertTable
<1>2. ASSUME NEW k \in Keys, NEW v \in Vals, InsertOrAssign(k, v) PROVE TableInv'
  BY <1>2, AssignTable
<1>3. ASSUME NEW p \in 0..Len(values), NEW k \in Keys, NEW v \in Vals, InsertAtPosition(p, k, v)
      PROVE  TableInv'
  BY <1>3, InsertAtTable
<1>4. ASSUME NEW k \in Keys, EraseKey(k) PROVE TableInv'
  BY <1>4, EraseKeyTable
<1>5. ASSUME NEW i \in 0..Len(values), NEW j \in 0..Len(values), EraseRange(i, j) PROVE TableInv'
  BY <1>5, EraseRangeTable
<1>6. ASSUME NEW k \in Keys, UnorderedEraseKey(k) PROVE TableInv'
  BY <1>6, UnorderedEraseTable
<1>7. ASSUME NEW k \in Keys, Find(k) PROVE TableInv'
  BY <1>7, FindTable
<1>8. CASE Clear
  BY <1>8, ClearTable
<1>9. ASSUME NEW n \in Counts, Rehash(n) PROVE TableInv'
  BY <1>9, RehashTable
<1>10. ASSUME NEW n \in Counts, Reserve(n) PROVE TableInv'
  BY <1>10, ReserveTable
<1>11. ASSUME NEW ml \in Loads, MaxLoadFactor(ml) PROVE TableInv'
  BY <1>11, MaxLoadFactorTable
<1>12. CASE MovedFrom
  BY <1>12, MovedFromTable
<1>13. CASE UNCHANGED vars
  BY <1>13 DEF vars, TableInv, SoundTable, Others
<1> QED BY <1>1, <1>2, <1>3, <1>4, <1>5, <1>6, <1>7, <1>8, <1>9, <1>10, <1>11, <1>12, <1>13
        DEF Next

-----------------------------------------------------------------------------
(* The invariants.                                                         *)

(* Whatever is done to the table, short of the three kinds of calls that   *)
(* the code gets wrong, its n buckets, n zero or a power of two, hold the  *)
(* values in robin hood order.                                             *)
THEOREM TableInvariant ==
  ASSUME Careful
  PROVE  Spec => []TableInv
<1>1. Init => TableInv
  BY InitTable
<1>2. TableInv /\ [Next]_vars => TableInv'
  BY NextKeeps
<1> QED BY <1>1, <1>2, PTL DEF Spec

LEMMA TypeFollows == TableInv => TypeOK
<1> HAVE TableInv
<1>1. PICK n \in Nat : SoundTable(n)
  BY DEF TableInv
<1>2. /\ Size(buckets) = n /\ buckets \in Tables(n) /\ DOMAIN buckets = Slots(n)
      /\ values \in Seq(Entries)
  BY <1>1, SoundIs
<1>3. n \in 0..MaxBuckets
  BY <1>1, Numbers DEF SoundTable, IsCount
<1>4. \E m \in 0..MaxBuckets : DOMAIN buckets = 0..(m - 1)
  BY <1>2, <1>3 DEF Slots
<1>5. \A i \in DOMAIN buckets :
        buckets[i] \in [index : 0..MaxSize, hash : 0..(TruncatedHashes - 1), full : BOOLEAN]
  BY <1>2 DEF Tables, Cell
<1>6. first \in {"data", "static"} /\ (first = "data" <=> Size(buckets) > 0)
  <2>1. n = 0 <=> ~(n > 0)
    OBVIOUS
  <2> QED BY <1>1, <1>2, <2>1 DEF SoundTable
<1>7. grow \in BOOLEAN /\ hung \in BOOLEAN /\ load \in 10..95
      /\ answer \in (Keys \X Vals) \cup {NotFound}
  BY DEF TableInv, Others, Entries
<1>8. threshold \in Nat
  <2>1. threshold = (n * load) \div 100
    BY <1>1 DEF SoundTable
  <2>2. (n * load) \div 100 \in Nat
    BY <1>7, ThresholdIs
  <2> QED BY <2>1, <2>2
<1>9. values \in Seq(Keys \X Vals)
  BY <1>2 DEF Entries
<1> QED BY <1>4, <1>5, <1>6, <1>7, <1>8, <1>9 DEF TypeOK

LEMMA IndexedFollows == TableInv => Indexed
<1> HAVE TableInv
<1>1. PICK n \in Nat : SoundTable(n)
  BY DEF TableInv
<1>2. /\ buckets \in Tables(n) /\ DOMAIN buckets = Slots(n)
      /\ values \in Seq(Entries) /\ Len(values) \in Nat /\ DOMAIN values = 1..Len(values)
      /\ IndexedIn(buckets, values, n)
  BY <1>1, SoundIs DEF SoundTable, Sound
<1>3. ASSUME NEW p \in DOMAIN values
      PROVE  \E i \in DOMAIN buckets :
               /\ buckets[i] = Entry(p - 1, truncate_hash(Hash[values[p][1]]))
               /\ \A j \in DOMAIN buckets : buckets[j].full /\ buckets[j].index = p - 1 => j = i
  <2> DEFINE q == p - 1
  <2>1. q \in 0..(Len(values) - 1) /\ q + 1 = p
    BY <1>2
  <2> HIDE DEF q
  <2>2. PICK i \in Slots(n) : buckets[i].full /\ buckets[i].index = q
    BY <1>2, <2>1 DEF IndexedIn
  <2>3. buckets[i].hash = truncate_hash(Hash[values[p][1]])
    BY <1>2, <2>1, <2>2 DEF IndexedIn, Belongs
  <2>4. buckets[i] \in Cell
    BY <1>2 DEF Tables
  <2>5. buckets[i] = Entry(q, truncate_hash(Hash[values[p][1]]))
    BY <2>2, <2>3, <2>4 DEF Cell, Entry
  <2>6. \A j \in Slots(n) : buckets[j].full /\ buckets[j].index = q => j = i
    BY <1>2, <2>2 DEF IndexedIn, Distinct
  <2> QED BY <1>2, <2>5, <2>6 DEF q
<1>4. \A i \in DOMAIN buckets : buckets[i].full => buckets[i].index < Len(values)
  BY <1>2 DEF IndexedIn, Belongs
<1> QED BY <1>3, <1>4 DEF Indexed

LEMMA RobinHoodFollows == TableInv => RobinHood
<1> HAVE TableInv
<1>1. PICK n \in Nat : SoundTable(n)
  BY DEF TableInv
<1>2. buckets \in Tables(n) /\ DOMAIN buckets = Slots(n) /\ Ordered(buckets, n)
  BY <1>1, SoundIs DEF SoundTable, Sound
<1>3. CASE n = 0
  <2>1. DOMAIN buckets = {}
    BY <1>2, <1>3 DEF Slots
  <2> QED BY <2>1 DEF RobinHood
<1>4. CASE n # 0
  <2>1. n \in Nat \ {0}
    BY <1>4
  <2> QED BY <1>2, <2>1, RobinHoodIs
<1> QED BY <1>3, <1>4

LEMMA NeverHangsFollows == TableInv => NeverHangs
<1> HAVE TableInv
<1>1. PICK n \in Nat : SoundTable(n)
  BY DEF TableInv
<1>2. Size(buckets) = n /\ DOMAIN buckets = Slots(n)
  BY <1>1, SoundIs
<1>3. n > 2 => \E i \in Slots(n) : ~buckets[i].full
  <2> HAVE n > 2
  <2>1. n \in Nat \ {0} /\ Sound(buckets, values, n) /\ Len(values) < n
    BY <1>1 DEF SoundTable, Sound
  <2> QED BY <2>1, SoundRoom
<1> QED BY <1>2, <1>3 DEF NeverHangs, TableInv, Others

(* The array, the pointer to it and the counters are always of their types,*)
(* and the pointer is to the static empty bucket exactly when there are no *)
(* buckets: no constructor, move, clear, growth or rehash leaves it        *)
(* dangling.                                                               *)
THEOREM TypeCorrect ==
  ASSUME Careful
  PROVE  Spec => []TypeOK
BY TableInvariant, TypeFollows, PTL

(* Every value has one bucket, with its position and its hash, and every   *)
(* full bucket a value, after any insertions, erasures and rehashes.       *)
THEOREM AlwaysIndexed ==
  ASSUME Careful
  PROVE  Spec => []Indexed
BY TableInvariant, IndexedFollows, PTL

(* Robin hood order survives every displacement, shift back and rehash, so *)
(* that a search may stop early.                                           *)
THEOREM AlwaysRobinHood ==
  ASSUME Careful
  PROVE  Spec => []RobinHood
BY TableInvariant, RobinHoodFollows, PTL

(* No search for the bucket of a moved value misses it, and an array of    *)
(* more than two buckets has a free one, whatever the load factor was and  *)
(* is, so that every probing loop ends.                                    *)
THEOREM SearchesEnd ==
  ASSUME Careful
  PROVE  Spec => []NeverHangs
BY TableInvariant, NeverHangsFollows, PTL

-----------------------------------------------------------------------------
(* The keys of the values, in their order, are what a set keeps.           *)

KeysOf(vs) == [p \in DOMAIN vs |-> vs[p][1]]

LEMMA KeysOfIs ==
  ASSUME NEW vs \in Seq(Entries)
  PROVE  /\ KeysOf(vs) \in Seq(Keys)
         /\ Len(KeysOf(vs)) = Len(vs)
         /\ \A p \in 1..Len(vs) : KeysOf(vs)[p] = vs[p][1]
<1>1. DOMAIN vs = 1..Len(vs) /\ Len(vs) \in Nat
  OBVIOUS
<1>2. \A p \in 1..Len(vs) : vs[p][1] \in Keys
  <2> SUFFICES ASSUME NEW p \in 1..Len(vs) PROVE vs[p][1] \in Keys
    OBVIOUS
  <2>1. vs[p] \in Entries
    OBVIOUS
  <2> QED BY <2>1 DEF Entries
<1>3. KeysOf(vs) = [p \in 1..Len(vs) |-> vs[p][1]]
  BY <1>1 DEF KeysOf
<1> QED BY <1>1, <1>2, <1>3

LEMMA SameSeq ==
  ASSUME NEW S, NEW s \in Seq(S), NEW t \in Seq(S), Len(s) = Len(t),
         \A p \in 1..Len(s) : s[p] = t[p]
  PROVE  s = t
<1>1. s = [p \in 1..Len(s) |-> s[p]] /\ t = [p \in 1..Len(t) |-> t[p]]
  OBVIOUS
<1> QED BY <1>1

LEMMA KeysWithout ==
  ASSUME NEW vs \in Seq(Entries), NEW i \in Nat, NEW j \in Nat, i <= j, j <= Len(vs)
  PROVE  KeysOf(Map!Without(vs, i, j)) = Set!Without(KeysOf(vs), i, j)
<1> DEFINE w == Map!Without(vs, i, j)
           ks == KeysOf(vs)
           u == Map!Without(ks, i, j)
           N == Len(vs) - (j - i)
           a == KeysOf(w)
           S == Keys
<1>1. ks \in Seq(S) /\ Len(ks) = Len(vs) /\ \A p \in 1..Len(vs) : ks[p] = vs[p][1]
  BY KeysOfIs
<1>2. w \in Seq(Entries)
  BY WithoutIs
<1>3. Len(w) = N
  BY WithoutIs
<1>4. \A p \in 1..N : w[p] = IF p <= i THEN vs[p] ELSE vs[p + (j - i)]
  BY WithoutIs
<1>5. N \in Nat /\ \A p \in 1..N : p \in 1..Len(vs) /\ (~(p <= i) => p + (j - i) \in 1..Len(vs))
  OBVIOUS
<1> HIDE DEF ks, S
<1>6. /\ u \in Seq(S) /\ Len(u) = Len(ks) - (j - i)
      /\ \A p \in 1..(Len(ks) - (j - i)) : u[p] = IF p <= i THEN ks[p] ELSE ks[p + (j - i)]
  <2>1. ks \in Seq(S) /\ j <= Len(ks)
    BY <1>1
  <2> QED BY SMTT(30), <2>1, WithoutOf
<1> HIDE DEF u, w
<1>7. a \in Seq(S) /\ Len(a) = N /\ \A p \in 1..N : a[p] = w[p][1]
  BY <1>2, <1>3, KeysOfIs DEF S
<1> HIDE DEF a, N
<1>8. Len(u) = N
  BY <1>1, <1>6 DEF N
<1>9. \A p \in 1..N : a[p] = u[p]
  <2> SUFFICES ASSUME NEW p \in 1..N PROVE a[p] = u[p]
    OBVIOUS
  <2>1. u[p] = IF p <= i THEN ks[p] ELSE ks[p + (j - i)]
    BY <1>1, <1>6 DEF N
  <2> QED BY <1>1, <1>4, <1>5, <1>7, <2>1
<1>10. a = u
  BY <1>6, <1>7, <1>8, <1>9, SameSeq
<1> QED BY <1>10 DEF a, u, w, ks, Map!Without, Set!Without

LEMMA KeysInserted ==
  ASSUME NEW vs \in Seq(Entries), NEW i \in 0..Len(vs), NEW k \in Keys, NEW v \in Vals
  PROVE  KeysOf(Map!InsertedAt(vs, i, <<k, v>>)) = Set!InsertedAt(KeysOf(vs), i, k)
<1> DEFINE e == <<k, v>>
           w == Map!InsertedAt(vs, i, e)
           ks == KeysOf(vs)
           u == Map!InsertedAt(ks, i, k)
           N == Len(vs) + 1
           a == KeysOf(w)
           S == Keys
<1>1. ks \in Seq(S) /\ Len(ks) = Len(vs) /\ \A p \in 1..Len(vs) : ks[p] = vs[p][1]
  BY KeysOfIs
<1>2. e \in Entries /\ e[1] = k
  BY DEF Entries
<1> HIDE DEF e
<1>3. w \in Seq(Entries)
  BY <1>2, InsertedIs
<1>4. Len(w) = N
  BY <1>2, InsertedIs
<1>5. \A p \in 1..N : w[p] = IF p <= i THEN vs[p] ELSE IF p = i + 1 THEN e ELSE vs[p - 1]
  BY <1>2, InsertedIs
<1>6. /\ N \in Nat
      /\ \A p \in 1..N : /\ p <= i => p \in 1..Len(vs)
                         /\ ~(p <= i) /\ p # i + 1 => p - 1 \in 1..Len(vs)
  OBVIOUS
<1> HIDE DEF ks, S
<1>7. /\ u \in Seq(S) /\ Len(u) = Len(ks) + 1
      /\ \A p \in 1..(Len(ks) + 1) : u[p] =
           IF p <= i THEN ks[p] ELSE IF p = i + 1 THEN k ELSE ks[p - 1]
  <2>1. ks \in Seq(S) /\ i \in 0..Len(ks) /\ k \in S
    BY <1>1 DEF S
  <2> QED BY <2>1, InsertedOf
<1> HIDE DEF u, w
<1>8. a \in Seq(S) /\ Len(a) = N /\ \A p \in 1..N : a[p] = w[p][1]
  BY <1>3, <1>4, KeysOfIs DEF S
<1> HIDE DEF a, N
<1>9. Len(u) = N
  BY <1>1, <1>7 DEF N
<1>10. \A p \in 1..N : a[p] = u[p]
  <2> SUFFICES ASSUME NEW p \in 1..N PROVE a[p] = u[p]
    OBVIOUS
  <2>1. u[p] = IF p <= i THEN ks[p] ELSE IF p = i + 1 THEN k ELSE ks[p - 1]
    BY <1>1, <1>7 DEF N
  <2>2. a[p] = w[p][1]
    BY <1>8
  <2>3. CASE p <= i
    <3>1. w[p] = vs[p] /\ u[p] = ks[p] /\ p \in 1..Len(vs)
      BY <1>5, <1>6, <2>1, <2>3
    <3> QED BY <1>1, <2>2, <3>1
  <2>4. CASE ~(p <= i) /\ p = i + 1
    <3>1. w[p] = e /\ u[p] = k
      BY <1>5, <2>1, <2>4
    <3> QED BY <1>2, <2>2, <3>1
  <2>5. CASE ~(p <= i) /\ p # i + 1
    <3>1. w[p] = vs[p - 1] /\ u[p] = ks[p - 1] /\ p - 1 \in 1..Len(vs)
      BY <1>5, <1>6, <2>1, <2>5
    <3> QED BY <1>1, <2>2, <3>1
  <2> QED BY <2>3, <2>4, <2>5
<1>11. a = u
  BY <1>7, <1>8, <1>9, <1>10, SameSeq
<1> QED BY <1>11 DEF a, u, w, ks, e, Map!InsertedAt, Set!InsertedAt

LEMMA SwappedOutOf ==
  ASSUME NEW S, NEW vs \in Seq(S), NEW i \in 0..(Len(vs) - 1)
  PROVE  /\ Map!SwappedOut(vs, i) \in Seq(S)
         /\ Len(Map!SwappedOut(vs, i)) = Len(vs) - 1
         /\ \A p \in 1..(Len(vs) - 1) :
              Map!SwappedOut(vs, i)[p] = IF p = i + 1 THEN vs[Len(vs)] ELSE vs[p]
<1> DEFINE L == Len(vs)
           e == [vs EXCEPT ![i + 1] = vs[L]]
           u == SubSeq(e, 1, L - 1)
<1>1. /\ vs \in Seq(S) /\ L \in Nat /\ L >= 1 /\ i + 1 \in DOMAIN vs /\ L \in DOMAIN vs
      /\ DOMAIN vs = 1..L /\ vs[L] \in S
  OBVIOUS
<1>2. e \in Seq(S) /\ Len(e) = L /\ \A x \in 1..L : e[x] = IF x = i + 1 THEN vs[L] ELSE vs[x]
  <2> HIDE DEF L
  <2> QED BY <1>1 DEF L
<1> HIDE DEF e
<1>3. u \in Seq(S) /\ Len(u) = L - 1 /\ \A x \in 1..(L - 1) : u[x] = e[x]
  <2> HIDE DEF L
  <2> QED BY <1>1, <1>2
<1>4. Map!SwappedOut(vs, i) = u
  BY DEF Map!SwappedOut, e
<1> HIDE DEF u
<1>5. \A x \in 1..(L - 1) : x \in 1..L
  BY <1>1
<1> QED BY <1>2, <1>3, <1>4, <1>5

LEMMA KeysSwappedOut ==
  ASSUME NEW vs \in Seq(Entries), NEW i \in 0..(Len(vs) - 1)
  PROVE  KeysOf(Map!SwappedOut(vs, i)) = Set!SwappedOut(KeysOf(vs), i)
<1> DEFINE w == Map!SwappedOut(vs, i)
           ks == KeysOf(vs)
           u == Map!SwappedOut(ks, i)
           N == Len(vs) - 1
           a == KeysOf(w)
           S == Keys
<1>1. ks \in Seq(S) /\ Len(ks) = Len(vs) /\ \A p \in 1..Len(vs) : ks[p] = vs[p][1]
  BY KeysOfIs
<1>2. w \in Seq(Entries) /\ Len(w) = N
      /\ \A p \in 1..N : w[p] = IF p = i + 1 THEN vs[Len(vs)] ELSE vs[p]
  BY SwappedOutOf
<1>3. N \in Nat /\ Len(vs) \in 1..Len(vs) /\ \A p \in 1..N : p \in 1..Len(vs)
  OBVIOUS
<1> HIDE DEF ks, S
<1>4. /\ u \in Seq(S) /\ Len(u) = Len(ks) - 1
      /\ \A p \in 1..(Len(ks) - 1) : u[p] = IF p = i + 1 THEN ks[Len(ks)] ELSE ks[p]
  <2>1. ks \in Seq(S) /\ i \in 0..(Len(ks) - 1)
    BY <1>1
  <2> QED BY <2>1, SwappedOutOf
<1> HIDE DEF u, w
<1>5. a \in Seq(S) /\ Len(a) = N /\ \A p \in 1..N : a[p] = w[p][1]
  BY <1>2, KeysOfIs DEF S
<1> HIDE DEF a, N
<1>6. Len(u) = N
  BY <1>1, <1>4 DEF N
<1>7. \A p \in 1..N : a[p] = u[p]
  <2> SUFFICES ASSUME NEW p \in 1..N PROVE a[p] = u[p]
    OBVIOUS
  <2>1. u[p] = IF p = i + 1 THEN ks[Len(vs)] ELSE ks[p]
    BY <1>1, <1>4 DEF N
  <2> QED BY <1>1, <1>2, <1>3, <1>5, <2>1
<1>8. a = u
  BY <1>4, <1>5, <1>6, <1>7, SameSeq
<1> QED BY <1>8 DEF a, u, w, ks, Map!SwappedOut, Set!SwappedOut

-----------------------------------------------------------------------------
(* The table implements the ordered map.                                   *)

LEMMA Plain ==
  ASSUME TableInv
  PROVE  /\ values \in Seq(Entries) /\ Len(values) \in Nat /\ DOMAIN values = 1..Len(values)
         /\ DistinctKeys(values)
         /\ \A k \in Keys : Found(k) <=> Map!Has(values, k)
<1>1. PICK n \in Nat : SoundTable(n)
  BY DEF TableInv
<1>2. values \in Seq(Entries) /\ Len(values) \in Nat /\ DistinctKeys(values)
  BY <1>1, SoundIs DEF SoundTable, Sound
<1>3. \A k \in Keys : Found(k) <=> \E p \in DOMAIN values : values[p][1] = k
  BY <1>1, FoundIs
<1> QED BY <1>2, <1>3 DEF Map!Has, Map!KeyAt

(* A key is at one position.                                               *)
LEMMA PosOfIs ==
  ASSUME NEW vs, DistinctKeys(vs), NEW p \in DOMAIN vs
  PROVE  Map!PosOf(vs, vs[p][1]) = p
BY DEF Map!PosOf, Map!KeyAt, DistinctKeys

LEMMA FindIsLookup ==
  ASSUME TableInv, NEW k \in Keys, Find(k)
  PROVE  Map!Lookup
<1>1. PICK n \in Nat : SoundTable(n)
  BY DEF TableInv
<1> DEFINE p == buckets[find_key(buckets, values, k)].index + 1
<1>2. answer' = IF Found(k) THEN values[p] ELSE NotFound
  BY DEF Find
<1>3. Found(k) => p \in DOMAIN values /\ values[p][1] = k
  BY <1>1, FoundIs
<1> HIDE DEF p
<1>4. Found(k) => Map!PosOf(values, k) = p
  BY <1>3, Plain, PosOfIs
<1>5. answer' = IF Map!Has(values, k) THEN values[Map!PosOf(values, k)] ELSE NotFound
  BY <1>2, <1>4, Plain
<1>6. values' = values
  BY DEF Find
<1> QED BY <1>5, <1>6 DEF Map!Lookup

LEMMA InsertIsInsert ==
  ASSUME TableInv, NEW p \in 0..Len(values), NEW k \in Keys, NEW v \in Vals,
         ~Found(k), insert_impl(p, k, v)
  PROVE  Map!Insert
<1>1. values' = Map!InsertedAt(values, p, <<k, v>>) /\ answer' = answer
  BY DEF insert_impl
<1>2. ~Map!Has(values, k)
  BY Plain
<1> QED BY <1>1, <1>2 DEF Map!Insert

LEMMA AssignIsAssign ==
  ASSUME TableInv, NEW k \in Keys, NEW v \in Vals, InsertOrAssign(k, v)
  PROVE  Map!Assign
<1>1. PICK n \in Nat : SoundTable(n)
  BY DEF TableInv
<1> DEFINE i == buckets[find_key(buckets, values, k)].index + 1
<1>2. /\ Found(k)
      /\ values' = [values EXCEPT ![i] = <<values[i][1], v>>]
      /\ answer' = answer
  BY DEF InsertOrAssign
<1>3. i \in DOMAIN values
  BY <1>1, <1>2, FoundIs
<1> HIDE DEF i
<1> QED BY <1>2, <1>3 DEF Map!Assign, Map!KeyAt

LEMMA CutIsErase ==
  ASSUME Cut, answer' = answer
  PROVE  Map!Erase
BY DEF Cut, Map!Erase

(* Clearing is erasing everything, if there is anything.                   *)
LEMMA EmptyIsErase ==
  ASSUME TableInv, values' = <<>>, answer' = answer
  PROVE  Map!Erase \/ UNCHANGED <<values, answer>>
<1> DEFINE L == Len(values)
<1>1. values \in Seq(Entries) /\ L \in Nat
  BY Plain
<1>2. CASE L = 0
  <2>1. values = <<>>
    BY <1>1, <1>2
  <2> QED BY <2>1
<1>3. CASE L # 0
  <2>1. /\ values \in Seq(Entries) /\ 0 \in Nat /\ L \in Nat /\ 0 <= L /\ L <= Len(values)
    BY <1>1
  <2> HIDE DEF L
  <2>2. /\ Map!Without(values, 0, L) \in Seq(Entries)
        /\ Len(Map!Without(values, 0, L)) = Len(values) - (L - 0)
    BY <2>1, WithoutIs
  <2>3. Len(values) - (L - 0) = 0
    BY <2>1 DEF L
  <2>4. Map!Without(values, 0, L) = <<>>
    BY <2>2, <2>3
  <2>5. 0 \in 0..Len(values) /\ L \in 0..Len(values) /\ 0 < L
    BY <1>3, <2>1 DEF L
  <2>6. \E i, j \in 0..Len(values) : i < j /\ values' = Map!Without(values, i, j)
    BY <2>4, <2>5
  <2> QED BY <2>6 DEF Map!Erase
<1> QED BY <1>2, <1>3

LEMMA MapStep ==
  ASSUME Careful
  PROVE  TableInv /\ [Next]_vars => [Map!Next]_<<values, answer>>
<1> SUFFICES ASSUME TableInv, [Next]_vars
             PROVE  Map!Next \/ UNCHANGED <<values, answer>>
  OBVIOUS
<1>1. ASSUME NEW k \in Keys, NEW v \in Vals, Insert(k, v) PROVE Map!Next
  <2>1. Len(values) \in 0..Len(values) /\ ~Found(k) /\ insert_impl(Len(values), k, v)
    BY <1>1, Plain DEF Insert
  <2> DEFINE p == Len(values)
  <2>2. p \in 0..Len(values) /\ insert_impl(p, k, v)
    BY <2>1
  <2> HIDE DEF p
  <2> QED BY <2>1, <2>2, InsertIsInsert DEF Map!Next
<1>2. ASSUME NEW k \in Keys, NEW v \in Vals, InsertOrAssign(k, v) PROVE Map!Next
  BY <1>2, AssignIsAssign DEF Map!Next
<1>3. ASSUME NEW p \in 0..Len(values), NEW k \in Keys, NEW v \in Vals, InsertAtPosition(p, k, v)
      PROVE  Map!Next
  <2>1. ~Found(k) /\ insert_impl(p, k, v)
    BY <1>3 DEF InsertAtPosition
  <2> QED BY <2>1, InsertIsInsert DEF Map!Next
<1>4. ASSUME NEW k \in Keys, EraseKey(k) PROVE Map!Next
  <2>1. Cut
    BY <1>4, EraseKeyTable
  <2>2. answer' = answer
    BY <1>4 DEF EraseKey
  <2> QED BY <2>1, <2>2, CutIsErase DEF Map!Next
<1>5. ASSUME NEW i \in 0..Len(values), NEW j \in 0..Len(values), EraseRange(i, j) PROVE Map!Next
  <2>1. Cut
    BY <1>5, EraseRangeTable
  <2>2. answer' = answer
    BY <1>5 DEF EraseRange
  <2> QED BY <2>1, <2>2, CutIsErase DEF Map!Next
<1>6. ASSUME NEW k \in Keys, UnorderedEraseKey(k) PROVE Map!Next
  <2>1. Cut \/ LastTakes
    BY <1>6, UnorderedEraseTable
  <2>2. answer' = answer
    BY <1>6 DEF UnorderedEraseKey
  <2>3. CASE Cut
    BY <2>2, <2>3, CutIsErase DEF Map!Next
  <2>4. CASE LastTakes
    BY <2>2, <2>4 DEF LastTakes, Map!UnorderedErase, Map!Next
  <2> QED BY <2>1, <2>3, <2>4
<1>7. ASSUME NEW k \in Keys, Find(k) PROVE Map!Next
  BY <1>7, FindIsLookup DEF Map!Next
<1>8. ASSUME Clear \/ MovedFrom PROVE Map!Next \/ UNCHANGED <<values, answer>>
  <2>1. values' = <<>> /\ answer' = answer
    BY <1>8 DEF Clear, MovedFrom
  <2> QED BY <2>1, EmptyIsErase DEF Map!Next
<1>9. ASSUME NEW n \in Counts, Rehash(n) \/ Reserve(n) PROVE UNCHANGED <<values, answer>>
  BY <1>9 DEF Rehash, Reserve, Rehashed
<1>10. ASSUME NEW ml \in Loads, MaxLoadFactor(ml) PROVE UNCHANGED <<values, answer>>
  BY <1>10 DEF MaxLoadFactor
<1>11. CASE UNCHANGED vars
  BY <1>11 DEF vars
<1> QED BY <1>1, <1>2, <1>3, <1>4, <1>5, <1>6, <1>7, <1>8, <1>9, <1>10, <1>11 DEF Next

-----------------------------------------------------------------------------
(* An ordered map is an ordered set of its keys.                           *)

KeyOf(e) == IF e = NotFound THEN NotFound ELSE e[1]

LEMMA LookupIsLookup ==
  ASSUME TableInv, Map!Lookup
  PROVE  Set!Lookup
<1>1. PICK k \in Keys :
        answer' = IF Map!Has(values, k) THEN values[Map!PosOf(values, k)] ELSE NotFound
  BY DEF Map!Lookup
<1>2. values' = values
  BY DEF Map!Lookup
<1>3. Map!Has(values, k) <=> Set!Contains(KeysOf(values), k)
  BY DEF Map!Has, Map!KeyAt, Set!Contains, KeysOf
<1>4. KeyOf(answer') = IF Set!Contains(KeysOf(values), k) THEN k ELSE NotFound
  <2>1. CASE Map!Has(values, k)
    <3>1. PICK p \in DOMAIN values : values[p][1] = k
      BY <2>1 DEF Map!Has, Map!KeyAt
    <3>2. answer' = values[p]
      <4>1. Map!PosOf(values, values[p][1]) = p
        BY <3>1, Plain, PosOfIs
      <4> QED BY <1>1, <2>1, <3>1, <4>1
    <3>3. values[p] \in Entries /\ NotFound \notin Entries
      BY <3>1, Plain, HashAssumption DEF Entries
    <3> QED BY <1>3, <2>1, <3>1, <3>2, <3>3 DEF KeyOf
  <2>2. CASE ~Map!Has(values, k)
    BY <1>1, <1>3, <2>2 DEF KeyOf
  <2> QED BY <2>1, <2>2
<1> QED BY <1>2, <1>4 DEF Set!Lookup, KeyOf, KeysOf

LEMMA InsertIsAdd ==
  ASSUME TableInv, Map!Insert
  PROVE  Set!Insert
<1>1. PICK k \in Keys, v \in Vals, i \in 0..Len(values) :
        ~Map!Has(values, k) /\ values' = Map!InsertedAt(values, i, <<k, v>>)
  BY DEF Map!Insert
<1>2. answer' = answer
  BY DEF Map!Insert
<1>3. values \in Seq(Entries)
  BY Plain
<1>4. KeysOf(values') = Set!InsertedAt(KeysOf(values), i, k)
  BY <1>1, <1>3, KeysInserted
<1>5. ~Set!Contains(KeysOf(values), k)
  BY <1>1 DEF Map!Has, Map!KeyAt, Set!Contains, KeysOf
<1>6. i \in 0..Len(KeysOf(values))
  BY <1>3, KeysOfIs
<1> QED BY <1>2, <1>4, <1>5, <1>6 DEF Set!Insert, KeysOf

LEMMA AssignKeepsKeys ==
  ASSUME TableInv, Map!Assign
  PROVE  KeysOf(values') = KeysOf(values) /\ answer' = answer
<1>1. PICK i \in DOMAIN values, v \in Vals :
        values' = [values EXCEPT ![i] = <<values[i][1], v>>]
  BY DEF Map!Assign, Map!KeyAt
<1>2. DOMAIN values' = DOMAIN values /\ \A p \in DOMAIN values : values'[p][1] = values[p][1]
  <2> DEFINE e == <<values[i][1], v>>
  <2>1. e[1] = values[i][1]
    OBVIOUS
  <2>2. values' = [values EXCEPT ![i] = e]
    BY <1>1
  <2>3. values \in Seq(Entries)
    BY Plain
  <2> HIDE DEF e
  <2> QED BY <2>1, <2>2, <2>3
<1> QED BY <1>2 DEF KeysOf, Map!Assign

LEMMA EraseIsErase ==
  ASSUME TableInv, Map!Erase
  PROVE  Set!Erase
<1>1. PICK i \in 0..Len(values), j \in 0..Len(values) :
        i < j /\ values' = Map!Without(values, i, j)
  BY DEF Map!Erase
<1>2. answer' = answer
  BY DEF Map!Erase
<1>3. values \in Seq(Entries) /\ Len(values) \in Nat
  BY Plain
<1>4. i \in Nat /\ j \in Nat /\ i <= j /\ j <= Len(values)
  BY <1>1, <1>3
<1>5. KeysOf(values') = Set!Without(KeysOf(values), i, j)
  BY <1>1, <1>3, <1>4, KeysWithout
<1>6. Len(KeysOf(values)) = Len(values)
  BY <1>3, KeysOfIs
<1> QED BY <1>1, <1>2, <1>5, <1>6 DEF Set!Erase, KeysOf

LEMMA UnorderedIsUnordered ==
  ASSUME TableInv, Map!UnorderedErase
  PROVE  Set!UnorderedErase
<1>1. PICK i \in 0..(Len(values) - 1) : values' = Map!SwappedOut(values, i)
  BY DEF Map!UnorderedErase
<1>2. answer' = answer
  BY DEF Map!UnorderedErase
<1>3. values \in Seq(Entries)
  BY Plain
<1>4. KeysOf(values') = Set!SwappedOut(KeysOf(values), i)
  BY <1>1, <1>3, KeysSwappedOut
<1>5. Len(KeysOf(values)) = Len(values)
  BY <1>3, KeysOfIs
<1> QED BY <1>2, <1>4, <1>5 DEF Set!UnorderedErase, KeysOf

LEMMA SetStep ==
  TableInv /\ [Map!Next]_<<values, answer>> =>
    [Set!Next]_<<[p \in DOMAIN values |-> values[p][1]],
                 IF answer = NotFound THEN NotFound ELSE answer[1]>>
<1> SUFFICES ASSUME TableInv, [Map!Next]_<<values, answer>>
             PROVE  Set!Next \/ (KeysOf(values') = KeysOf(values) /\ answer' = answer)
  BY DEF KeysOf
<1>1. CASE Map!Lookup
  BY <1>1, LookupIsLookup DEF Set!Next
<1>2. CASE Map!Insert
  BY <1>2, InsertIsAdd DEF Set!Next
<1>3. CASE Map!Assign
  BY <1>3, AssignKeepsKeys
<1>4. CASE Map!Erase
  BY <1>4, EraseIsErase DEF Set!Next
<1>5. CASE Map!UnorderedErase
  BY <1>5, UnorderedIsUnordered DEF Set!Next
<1>6. CASE UNCHANGED <<values, answer>>
  BY <1>6
<1> QED BY <1>1, <1>2, <1>3, <1>4, <1>5, <1>6 DEF Map!Next

(* Every operation of the table is one of an ordered map or changes        *)
(* nothing that its callers see: lookups find exactly the keys that are    *)
(* there, and insertions and erasures keep the order of the others.        *)
THEOREM ImplementsMap ==
  ASSUME Careful
  PROVE  Spec => Map!Spec
<1>1. Init => Map!Init
  BY DEF Init, Map!Init
<1>2. TableInv /\ [Next]_vars => [Map!Next]_<<values, answer>>
  BY MapStep
<1> QED BY <1>1, <1>2, TableInvariant, PTL DEF Spec, Map!Spec

(* The same table is an ordered map of its entries and an ordered set of   *)
(* its keys.                                                               *)
THEOREM ImplementsBoth ==
  ASSUME Careful
  PROVE  Spec => ImplementsContainers
<1>1. Init => Set!Init
  <2> HAVE Init
  <2>1. values = <<>> /\ answer = NotFound
    BY DEF Init
  <2>2. [p \in DOMAIN values |-> values[p][1]] = <<>>
    BY <2>1
  <2> QED BY <2>1, <2>2 DEF Set!Init
<1>2. TableInv /\ [Next]_vars =>
        [Set!Next]_<<[p \in DOMAIN values |-> values[p][1]],
                     IF answer = NotFound THEN NotFound ELSE answer[1]>>
  BY MapStep, SetStep
<1> QED BY <1>1, <1>2, TableInvariant, ImplementsMap, PTL DEF Spec, Set!Spec, ImplementsContainers
=============================================================================
