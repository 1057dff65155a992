--------------------------- MODULE MCOrderedHash ---------------------------
(* Three keys share their ideal bucket up to four buckets, two of them     *)
(* their truncated hash; the fourth one wraps around.                      *)
EXTENDS OrderedHash

MCHash == [k \in Keys |-> CASE k = 1 -> 3 [] k = 2 -> 7 [] k = 3 -> 3 + 16 [] k = 4 -> 0
                           [] k = 5 -> 14]
=============================================================================
