---------------------------- MODULE WeightStore ----------------------------
(***************************************************************************)
(* What a compiled model promises about its trainable weights, with no     *)
(* word about host and device copies: there is one value of each weight,   *)
(* every forward pass reads the values last written, and a write replaces  *)
(* the values of a set of weights by a version never used before.          *)
(***************************************************************************)
EXTENDS Naturals

CONSTANT Weights

VARIABLES
  value,     \* the value of each weight
  version,   \* the last version written
  reads,     \* forward passes so far
  seen       \* the values the last forward pass ran with

vars == <<value, version, reads, seen>>

Init ==
  /\ value = [p \in Weights |-> 0]
  /\ version = 0
  /\ reads = 0
  /\ seen = [p \in Weights |-> 0]

Read ==
  /\ reads' = reads + 1
  /\ seen' = value
  /\ UNCHANGED <<value, version>>

Write(S) ==
  /\ version' = version + 1
  /\ value' = [p \in Weights |-> IF p \in S THEN version + 1 ELSE value[p]]
  /\ UNCHANGED <<reads, seen>>

Next == Read \/ \E S \in SUBSET Weights : Write(S)

Spec == Init /\ [][Next]_vars
=============================================================================
