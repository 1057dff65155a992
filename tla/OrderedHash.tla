---------------------------- MODULE OrderedHash ----------------------------
(***************************************************************************)
(* ordered_hash (utils/ordered_associative_containers/ordered_hash.hpp),   *)
(* the table under ordered_map: values in insertion order in m_values, and *)
(* a power-of-two array of buckets, each the index of a value and its      *)
(* truncated hash, kept by robin hood linear probing with backward shift   *)
(* deletion.                                                               *)
(*                                                                         *)
(* Positions and bucket numbers count from 0 as in the code.  Load factors *)
(* are percentages.                                                        *)
(***************************************************************************)
EXTENDS Naturals, Sequences, FiniteSets

CONSTANTS
  Keys, Vals,
  NotFound,        \* end()
  Hash,            \* [Keys -> Nat]: hash_key
  TruncatedHashes, \* number of truncated hashes (2^32)
  NPROBES,         \* REHASH_ON_HIGH_NB_PROBES__NPROBES
  MinLoad,         \* REHASH_ON_HIGH_NB_PROBES__MIN_LOAD_FACTOR
  MaxSize,         \* max_size()
  InitBuckets,     \* bucket counts a map is constructed with
  Loads,           \* max load factors asked for
  Counts,          \* arguments of rehash and reserve
  RangeErase,      \* erase(first, last) is called with wrapped entries, too
  InsertInside,    \* insert_at_position is called with displaced entries, too
  ShrinkToNone,    \* an empty map is rehashed to no buckets, too
  MaxBuckets       \* bound of the model

VARIABLES
  buckets,     \* m_buckets: function from 0..n-1
  values,      \* m_values
  first,       \* m_first_or_empty_bucket: "data" or "static"
  grow,        \* m_grow_on_next_insert
  load,        \* m_max_load_factor
  threshold,   \* m_load_threshold
  hung,        \* a search for a bucket that is not there never returned
  answer       \* what the last lookup found

vars == <<buckets, values, first, grow, load, threshold, hung, answer>>

Map == INSTANCE OrderedMap WITH entries <- values
Set == INSTANCE OrderedSet WITH
  elements <- [p \in DOMAIN values |-> values[p][1]],
  answer <- IF answer = NotFound THEN NotFound ELSE answer[1]

Empty == [index |-> 0, hash |-> 0, full |-> FALSE]

Entry(i, h) == [index |-> i, hash |-> h, full |-> TRUE]

truncate_hash(h) == h % TruncatedHashes

Size(b) == Cardinality(DOMAIN b)

Least(S) == CHOOSE x \in S : \A y \in S : x <= y

Pow2[e \in Nat] == IF e = 0 THEN 1 ELSE 2 * Pow2[e - 1]

(* round_up_to_power_of_two; the shifts and ors of the code.               *)
RoundUp(n) == Least({p \in {Pow2[e] : e \in 0..n} : p >= n})

(* Bucket counts and the number of truncated hashes are powers of two.     *)
ASSUME HashAssumption ==
  /\ Hash \in [Keys -> Nat]
  /\ NotFound \notin Keys \X Vals
  /\ TruncatedHashes >= MaxBuckets
  /\ \E e \in 0..TruncatedHashes : TruncatedHashes = Pow2[e]
  /\ TruncatedHashes \in Nat /\ NPROBES \in Nat /\ MinLoad \in Nat /\ MaxSize \in Nat
  /\ InitBuckets \subseteq Nat /\ Counts \subseteq Nat /\ Loads \subseteq Nat
  /\ RangeErase \in BOOLEAN /\ InsertInside \in BOOLEAN /\ ShrinkToNone \in BOOLEAN
  /\ MaxBuckets \in Nat
  /\ \A n \in InitBuckets \ {0} : RoundUp(n) <= MaxBuckets

bucket_for_hash(b, h) == IF Size(b) = 0 THEN 0 ELSE h % Size(b)

next_bucket(b, i) == (i + 1) % Size(b)

(* distance_from_ideal_bucket; buckets before the ideal one were reached   *)
(* by wrapping.                                                            *)
Distance(b, i) ==
  LET ideal == bucket_for_hash(b, b[i].hash)
  IN IF i >= ideal THEN i - ideal ELSE Size(b) + i - ideal

Ceil(n, pct) == (n * 100 + pct - 1) \div pct

(* max_load_factor keeps to 10%..95%.                                      *)
Clamped(ml) == IF ml < 10 THEN 10 ELSE IF ml > 95 THEN 95 ELSE ml

Threshold(b, pct) == (Size(b) * pct) \div 100

-----------------------------------------------------------------------------
(* Probing.  At the d-th bucket after the ideal one.                       *)

Probe(b, k, d) == (bucket_for_hash(b, Hash[k]) + d) % Size(b)

Matches(b, vs, k, i) ==
  /\ b[i].hash = truncate_hash(Hash[k])
  /\ b[i].index < Len(vs)
  /\ Map!KeyAt(vs, b[i].index + 1) = k

(* Fault: the search also stops at an entry as far from home as the key    *)
(* would be.                                                               *)
StopEarly(b, vs, k) ==
  Least({d \in 0..Size(b) :
           LET i == Probe(b, k, d) IN
           ~b[i].full \/ Matches(b, vs, k, i) \/ d >= Distance(b, i)})

(* Where find_key and the loop of insert_impl stop: at an empty bucket, at *)
(* the key, or where the key would have displaced the entry.               *)
StopAt(b, vs, k) ==
  Least({d \in 0..Size(b) :
           LET i == Probe(b, k, d) IN
           ~b[i].full \/ Matches(b, vs, k, i) \/ d > Distance(b, i)})

(* Bucket of k, or m_buckets.end().                                        *)
find_key(b, vs, k) ==
  IF Size(b) = 0 THEN 0
  ELSE LET i == Probe(b, k, StopAt(b, vs, k))
       IN IF b[i].full /\ Matches(b, vs, k, i) THEN i ELSE Size(b)

(* One bucket of insert_index: the entry e that is d away from its ideal   *)
(* bucket takes bucket i if that is empty; the entry there goes on in its  *)
(* place if it is closer to its own.  n values are in the table.           *)
insert_step(s, n) ==
  LET rich == s.d > Distance(s.b, s.i)
      d    == (IF rich THEN Distance(s.b, s.i) ELSE s.d) + 1
  IN
  IF s.done THEN s
  ELSE IF ~s.b[s.i].full
  THEN [b |-> [s.b EXCEPT ![s.i] = s.e], e |-> s.e, i |-> s.i, d |-> s.d,
        done |-> TRUE, grow |-> s.grow]
  ELSE [b    |-> IF rich THEN [s.b EXCEPT ![s.i] = s.e] ELSE s.b,
        e    |-> IF rich THEN s.b[s.i] ELSE s.e,
        i    |-> next_bucket(s.b, s.i),
        d    |-> d,
        done |-> FALSE,
        grow |-> s.grow \/ (d > NPROBES /\ n * 100 >= MinLoad * Size(s.b))]

(* insert_index of e0 from bucket i0, which is d0 away from its ideal one. *)
insert_index(b0, i0, d0, e0, n) ==
  LET step[j \in 0..Size(b0)] ==
        IF j = 0 THEN [b |-> b0, e |-> e0, i |-> i0, d |-> d0, done |-> FALSE, grow |-> FALSE]
        ELSE insert_step(step[j - 1], n)
  IN step[Size(b0)]

(* The loop of rehash_impl over the old buckets: bucket j.                 *)
rehash_step(fresh, b, j) ==
  IF b[j].full
  THEN insert_index(fresh, bucket_for_hash(fresh, b[j].hash), 0, b[j], 0).b
  ELSE fresh

Redistributed(b, n) ==
  LET put[j \in 0..Size(b)] ==
        IF j = 0 THEN [i \in 0..(n - 1) |-> Empty] ELSE rehash_step(put[j - 1], b, j - 1)
  IN put[Size(b)]

(* Fault: nothing is shifted back.                                         *)
NoBackwardShift(b, i) == b

(* backward_shift of the buckets after the empty bucket i, as far as they  *)
(* are full and not ideal.                                                 *)
Movable(b, j) == b[j].full /\ Distance(b, j) > 0

ShiftRun(b, i) ==
  Least({r \in 0..(Size(b) - 1) :
           r = Size(b) - 1 \/ ~Movable(b, (i + r + 1) % Size(b))})

backward_shift(b, i) ==
  LET off(j) == (j + Size(b) - i) % Size(b)
  IN [j \in DOMAIN b |-> IF off(j) < ShiftRun(b, i) THEN b[next_bucket(b, j)]
                         ELSE IF off(j) = ShiftRun(b, i) THEN Empty ELSE b[j]]

(* Fault: nothing is shifted.                                              *)
NoShiftIndexes(b0, vs, from, delta) == [b |-> b0, hung |-> FALSE]

(* shift_indexes_in_buckets: the values from position "from" on have moved *)
(* by delta; find the bucket that has the old position of each, from the   *)
(* ideal bucket of its key on.                                             *)
ValueProbe(b, vs, v, d) == Probe(b, Map!KeyAt(vs, v + 1), d)

Hits(b, vs, v, delta) ==
  {d \in 0..(Size(b) - 1) :
     LET i == ValueProbe(b, vs, v, d) IN b[i].full /\ b[i].index = v - delta}

shift_step(s, vs, v, delta) ==
  LET i == ValueProbe(s.b, vs, v, Least(Hits(s.b, vs, v, delta))) IN
  IF s.hung \/ Hits(s.b, vs, v, delta) = {} THEN [b |-> s.b, hung |-> TRUE]
  ELSE [b |-> [s.b EXCEPT ![i] = [@ EXCEPT !.index = v]], hung |-> FALSE]

shift_indexes(b0, vs, from, delta) ==
  LET go[j \in 0..(Len(vs) - from)] ==
        IF j = 0 THEN [b |-> b0, hung |-> FALSE]
        ELSE shift_step(go[j - 1], vs, from + j - 1, delta)
  IN go[Len(vs) - from]

-----------------------------------------------------------------------------
Init ==
  /\ \E n \in InitBuckets :
       buckets = [i \in 0..((IF n = 0 THEN 0 ELSE RoundUp(n)) - 1) |-> Empty]
  /\ values = <<>>
  /\ first = IF Size(buckets) = 0 THEN "static" ELSE "data"
  /\ grow = FALSE
  /\ load \in {Clamped(ml) : ml \in Loads}
  /\ threshold = Threshold(buckets, load)
  /\ hung = FALSE
  /\ answer = NotFound

(* A call returned, and what find_key dereferences is a bucket.            *)
Usable == ~hung /\ ~(first = "data" /\ Size(buckets) = 0)

(* rehash_impl(n): the buckets, the threshold and the pointer it leaves.   *)
rehash_impl(n) ==
  LET c == IF n > 0 THEN RoundUp(n) ELSE 0 IN
  IF c = Size(buckets)
  THEN [b |-> buckets, grow |-> grow, threshold |-> threshold, first |-> first]
  ELSE [b |-> Redistributed(buckets, c), grow |-> FALSE,
        threshold |-> (c * load) \div 100, first |-> "data"]

(* Fault: the table grows when the threshold is exceeded, not reached.     *)
grow_late ==
  IF grow \/ Size(buckets) = 0 \/ Len(values) > threshold
  THEN [rehash_impl(IF Size(buckets) = 0 THEN 1 ELSE Size(buckets) * 2) EXCEPT !.grow = FALSE]
  ELSE [b |-> buckets, grow |-> grow, threshold |-> threshold, first |-> first]

(* grow_on_high_load, before an insertion.                                 *)
grow_on_high_load ==
  IF grow \/ Len(values) >= threshold
  THEN [rehash_impl(IF Size(buckets) = 0 THEN 1 ELSE Size(buckets) * 2) EXCEPT !.grow = FALSE]
  ELSE [b |-> buckets, grow |-> grow, threshold |-> threshold, first |-> first]

(* insert_impl and insert_at_position_impl of a key that is not there:     *)
(* the value goes to position p, and the indexes of those after it move.   *)
(* Probing goes on where the search stopped unless the table has grown,    *)
(* then from the ideal bucket.                                             *)
insert_impl(p, k, v) ==
  LET g   == grow_on_high_load
      d   == IF Size(g.b) # Size(buckets) THEN 0 ELSE StopAt(buckets, values, k)
      vs  == Map!InsertedAt(values, p, <<k, v>>)
      put == insert_index(g.b, Probe(g.b, k, d), d, Entry(p, truncate_hash(Hash[k])), Len(vs))
      sh  == shift_indexes(put.b, vs, p + 1, 1)
  IN
  /\ Size(g.b) <= MaxBuckets
  /\ values' = vs
  /\ buckets' = sh.b
  /\ hung' = sh.hung
  /\ grow' = (g.grow \/ put.grow)
  /\ threshold' = g.threshold
  /\ first' = g.first
  /\ UNCHANGED <<load, answer>>

Found(k) == find_key(buckets, values, k) # Size(buckets)

(* insert, emplace, try_emplace, operator[] and their variants with a hint.*)
Insert(k, v) ==
  /\ Usable
  /\ ~Found(k)
  /\ Len(values) < MaxSize
  /\ insert_impl(Len(values), k, v)

(* insert_at_position, emplace_at_position, try_emplace_at_position.       *)
(* Unless InsertInside holds: at the end, or with no entry displaced.      *)
InsertAtPosition(p, k, v) ==
  /\ Usable
  /\ ~Found(k)
  /\ Len(values) < MaxSize
  /\ insert_impl(p, k, v)
  /\ \/ InsertInside
     \/ p = Len(values)
     \/ \A i \in DOMAIN buckets' : buckets'[i].full => Distance(buckets', i) = 0

(* insert_or_assign of a key that is there.                                *)
InsertOrAssign(k, v) ==
  LET i == buckets[find_key(buckets, values, k)].index + 1 IN
  /\ Usable
  /\ Found(k)
  /\ values' = [values EXCEPT ![i] = <<values[i][1], v>>]
  /\ UNCHANGED <<buckets, first, grow, load, threshold, hung, answer>>

(* erase_value_from_bucket.                                                *)
erase_value_from_bucket(b, i, vs) ==
  LET p   == b[i].index
      rest == Map!Without(vs, p, p + 1)
      sh  == shift_indexes(b, rest, p, 0 - 1)
  IN
  /\ values' = rest
  /\ buckets' = backward_shift([sh.b EXCEPT ![i] = Empty], i)
  /\ hung' = sh.hung

(* erase of a key or of an iterator, pop_back.                             *)
EraseKey(k) ==
  /\ Usable
  /\ Found(k)
  /\ erase_value_from_bucket(buckets, find_key(buckets, values, k), values)
  /\ UNCHANGED <<first, grow, load, threshold, answer>>

(* The loop of erase(first, last) over the buckets: bucket s.i.            *)
range_step(s, from, to) ==
  LET x == s.b[s.i].index IN
  IF s.i = Size(s.b) THEN s
  ELSE IF ~s.b[s.i].full \/ x < from THEN [b |-> s.b, i |-> s.i + 1]
  ELSE IF x < to THEN [b |-> backward_shift([s.b EXCEPT ![s.i] = Empty], s.i), i |-> s.i]
  ELSE [b |-> [s.b EXCEPT ![s.i] = [@ EXCEPT !.index = x - (to - from)]], i |-> s.i + 1]

range_erase(b0, from, to) ==
  LET step[j \in 0..(2 * Size(b0))] ==
        IF j = 0 THEN [b |-> b0, i |-> 0] ELSE range_step(step[j - 1], from, to)
  IN step[2 * Size(b0)].b

(* Unless RangeErase holds: with no entry wrapped around to bucket 0.      *)
EraseRange(from, to) ==
  /\ Usable
  /\ from < to
  /\ RangeErase \/ ~buckets[0].full \/ Distance(buckets, 0) = 0
  /\ values' = Map!Without(values, from, to)
  /\ buckets' = range_erase(buckets, from, to)
  /\ UNCHANGED <<first, grow, load, threshold, hung, answer>>

(* unordered_erase: the last value takes the place of the erased one.      *)
UnorderedEraseKey(k) ==
  LET i == find_key(buckets, values, k)
      last == Len(values)
      l == find_key(buckets, values, Map!KeyAt(values, last))
      p == buckets[i].index
  IN
  /\ Usable
  /\ Found(k)
  /\ \/ /\ Map!KeyAt(values, last) = k
        /\ erase_value_from_bucket(buckets, i, values)
     \/ /\ Map!KeyAt(values, last) # k
        /\ erase_value_from_bucket(
             [buckets EXCEPT ![i].index = buckets[l].index, ![l].index = p], i,
             [values EXCEPT ![p + 1] = values[last], ![last] = values[p + 1]])
  /\ UNCHANGED <<first, grow, load, threshold, answer>>

(* find, at, count, equal_range.                                           *)
Find(k) ==
  /\ Usable
  /\ answer' = IF Found(k) THEN values[buckets[find_key(buckets, values, k)].index + 1]
                           ELSE NotFound
  /\ UNCHANGED <<buckets, values, first, grow, load, threshold, hung>>

Clear ==
  /\ values' = <<>>
  /\ buckets' = [i \in DOMAIN buckets |-> Empty]
  /\ grow' = FALSE
  /\ UNCHANGED <<first, load, threshold, hung, answer>>

Rehashed(n) ==
  LET r == rehash_impl(n) IN
  /\ Size(r.b) <= MaxBuckets
  /\ ShrinkToNone \/ n > 0
  /\ buckets' = r.b
  /\ grow' = r.grow
  /\ threshold' = r.threshold
  /\ first' = r.first
  /\ UNCHANGED <<values, load, hung, answer>>

Larger(m, n) == IF m >= n THEN m ELSE n

Rehash(n) ==
  /\ Usable
  /\ Rehashed(Larger(n, Ceil(Len(values), load)))

Reserve(n) ==
  /\ Usable
  /\ Rehashed(Larger(Ceil(n, load), Ceil(Len(values), load)))

MaxLoadFactor(ml) ==
  /\ load' = Clamped(ml)
  /\ threshold' = Threshold(buckets, load')
  /\ UNCHANGED <<buckets, values, first, grow, hung, answer>>

(* Fault: the pointer is not reset.                                        *)
MovedFromDangling ==
  /\ buckets' = <<>>
  /\ values' = <<>>
  /\ grow' = FALSE
  /\ threshold' = 0
  /\ UNCHANGED <<first, load, hung, answer>>

(* What the move constructor leaves behind.                                *)
MovedFrom ==
  /\ buckets' = <<>>
  /\ values' = <<>>
  /\ first' = "static"
  /\ grow' = FALSE
  /\ threshold' = 0
  /\ UNCHANGED <<load, hung, answer>>

Next ==
  \/ \E k \in Keys, v \in Vals : Insert(k, v)
  \/ \E k \in Keys, v \in Vals : InsertOrAssign(k, v)
  \/ \E p \in 0..Len(values), k \in Keys, v \in Vals : InsertAtPosition(p, k, v)
  \/ \E k \in Keys : EraseKey(k)
  \/ \E i, j \in 0..Len(values) : EraseRange(i, j)
  \/ \E k \in Keys : UnorderedEraseKey(k)
  \/ \E k \in Keys : Find(k)
  \/ Clear
  \/ \E n \in Counts : Rehash(n)
  \/ \E n \in Counts : Reserve(n)
  \/ \E ml \in Loads : MaxLoadFactor(ml)
  \/ MovedFrom

Spec == Init /\ [][Next]_vars

-----------------------------------------------------------------------------
(* Types, and of the pointer to the first bucket: "Points to               *)
(* m_buckets.data() if !m_buckets.empty() otherwise points to              *)
(* static_empty_bucket_ptr."                                               *)
TypeOK ==
  /\ \E n \in 0..MaxBuckets : DOMAIN buckets = 0..(n - 1)
  /\ \A i \in DOMAIN buckets :
       buckets[i] \in [index : 0..MaxSize, hash : 0..(TruncatedHashes - 1), full : BOOLEAN]
  /\ values \in Seq(Keys \X Vals)
  /\ first \in {"data", "static"}
  /\ grow \in BOOLEAN /\ hung \in BOOLEAN
  /\ load \in 10..95 /\ threshold \in Nat
  /\ answer \in (Keys \X Vals) \cup {NotFound}
  /\ first = "data" <=> Size(buckets) > 0

(* Every value has exactly one bucket, with its position and its hash, and *)
(* every full bucket belongs to a value: insertions, erasures and rehashes *)
(* move values and buckets in step.                                        *)
Indexed ==
  /\ \A p \in DOMAIN values :
       \E i \in DOMAIN buckets :
         /\ buckets[i] = Entry(p - 1, truncate_hash(Hash[values[p][1]]))
         /\ \A j \in DOMAIN buckets : buckets[j].full /\ buckets[j].index = p - 1 => j = i
  /\ \A i \in DOMAIN buckets : buckets[i].full => buckets[i].index < Len(values)

(* The robin hood order that lets find_key stop early: an entry away from  *)
(* its ideal bucket follows an entry that is at most one bucket closer to  *)
(* its own.                                                                *)
RobinHood ==
  \A i \in DOMAIN buckets :
    buckets[i].full /\ Distance(buckets, i) > 0 =>
      LET j == (i + Size(buckets) - 1) % Size(buckets) IN
      buckets[j].full /\ Distance(buckets, j) + 1 >= Distance(buckets, i)

(* No search for the bucket of a moved value runs forever, and tables with *)
(* more than two buckets keep one free, which ends every loop of           *)
(* insert_index: growth keeps up with insertions whatever the order of     *)
(* inserting, erasing, rehashing and changing the load factor.             *)
NeverHangs ==
  /\ ~hung
  /\ Size(buckets) > 2 => \E i \in DOMAIN buckets : ~buckets[i].full

(* Lookups, insertions and erasures are those of an ordered map and, of    *)
(* the keys alone, those of an ordered set.                                *)
ImplementsContainers == Map!Spec /\ Set!Spec
=============================================================================
