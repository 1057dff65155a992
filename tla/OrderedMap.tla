----------------------------- MODULE OrderedMap -----------------------------
(***************************************************************************)
(* What an ordered map promises its callers: a sequence of entries with    *)
(* distinct keys, in insertion order, in which a lookup finds exactly the  *)
(* keys that are there.  ordered_hash.hpp is shown to implement it.        *)
(***************************************************************************)
EXTENDS Naturals, Sequences, FiniteSets

CONSTANTS Keys, Vals, NotFound

VARIABLES
  entries,   \* sequence of <<key, value>>
  answer     \* <<key, value>> of the last lookup, NotFound when it failed

KeyAt(s, i) == s[i][1]

Has(s, k) == \E i \in DOMAIN s : KeyAt(s, i) = k

PosOf(s, k) == CHOOSE i \in DOMAIN s : KeyAt(s, i) = k

(* s with e before position i (positions from 0), without positions i..j-1,*)
(* and without position i, whose place the last entry takes.               *)
InsertedAt(s, i, e) == SubSeq(s, 1, i) \o <<e>> \o SubSeq(s, i + 1, Len(s))

Without(s, i, j) == SubSeq(s, 1, i) \o SubSeq(s, j + 1, Len(s))

SwappedOut(s, i) == SubSeq([s EXCEPT ![i + 1] = s[Len(s)]], 1, Len(s) - 1)

Init == entries = <<>> /\ answer = NotFound

Lookup ==
  /\ \E k \in Keys : answer' = IF Has(entries, k) THEN entries[PosOf(entries, k)] ELSE NotFound
  /\ UNCHANGED entries

Insert ==
  \E k \in Keys, v \in Vals, i \in 0..Len(entries) :
    /\ ~Has(entries, k)
    /\ entries' = InsertedAt(entries, i, <<k, v>>)
    /\ UNCHANGED answer

Assign ==
  \E i \in DOMAIN entries, v \in Vals :
    /\ entries' = [entries EXCEPT ![i] = <<KeyAt(entries, i), v>>]
    /\ UNCHANGED answer

Erase ==
  \E i, j \in 0..Len(entries) :
    /\ i < j
    /\ entries' = Without(entries, i, j)
    /\ UNCHANGED answer

UnorderedErase ==
  \E i \in 0..(Len(entries) - 1) :
    /\ entries' = SwappedOut(entries, i)
    /\ UNCHANGED answer

Next == Lookup \/ Insert \/ Assign \/ Erase \/ UnorderedErase

Spec == Init /\ [][Next]_<<entries, answer>>
=============================================================================
