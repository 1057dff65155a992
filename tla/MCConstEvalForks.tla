-------------------------- MODULE MCConstEvalForks --------------------------
(***************************************************************************)
(* Two constants; the first is used by two ops, which feed a third.        *)
(***************************************************************************)
EXTENDS ConstEvalForks

DataEdge(p, c, i) == [prod |-> p, cons |-> c, port |-> i, type |-> "data"]

ForkKind == <<"input", "input", "op", "op">>

ForkEdges == {DataEdge(1, 3, 0), DataEdge(2, 3, 1), DataEdge(1, 4, 0)}
=============================================================================
