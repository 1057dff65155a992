----------------------------- MODULE OrderedSet -----------------------------
(***************************************************************************)
(* What an ordered set promises its callers: distinct elements in the      *)
(* order they came in, all found by a lookup and no others.  It is the     *)
(* hash table of ordered_hash.hpp with the elements as keys, and assigns   *)
(* nothing: an element that is there already stays where it is.            *)
(***************************************************************************)
EXTENDS Naturals, Sequences

CONSTANTS Keys, NotFound

VARIABLES
  elements,   \* sequence of keys
  answer      \* the key of the last lookup, NotFound when it failed

Contains(s, k) == \E i \in DOMAIN s : s[i] = k

InsertedAt(s, i, k) == SubSeq(s, 1, i) \o <<k>> \o SubSeq(s, i + 1, Len(s))

Without(s, i, j) == SubSeq(s, 1, i) \o SubSeq(s, j + 1, Len(s))

SwappedOut(s, i) == SubSeq([s EXCEPT ![i + 1] = s[Len(s)]], 1, Len(s) - 1)

Init == elements = <<>> /\ answer = NotFound

Lookup ==
  /\ \E k \in Keys : answer' = IF Contains(elements, k) THEN k ELSE NotFound
  /\ UNCHANGED elements

Insert ==
  \E k \in Keys, i \in 0..Len(elements) :
    /\ ~Contains(elements, k)
    /\ elements' = InsertedAt(elements, i, k)
    /\ UNCHANGED answer

Erase ==
  \E i, j \in 0..Len(elements) :
    /\ i < j
    /\ elements' = Without(elements, i, j)
    /\ UNCHANGED answer

UnorderedErase ==
  \E i \in 0..(Len(elements) - 1) :
    /\ elements' = SwappedOut(elements, i)
    /\ UNCHANGED answer

Next == Lookup \/ Insert \/ Erase \/ UnorderedErase

Spec == Init /\ [][Next]_<<elements, answer>>
=============================================================================
