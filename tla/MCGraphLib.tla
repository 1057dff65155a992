----------------------------- MODULE MCGraphLib -----------------------------
(***************************************************************************)
(* An input that feeds two ops, one of which feeds the other.              *)
(***************************************************************************)
EXTENDS GraphLib

DataEdge(p, c, i) == [prod |-> p, cons |-> c, port |-> i, type |-> "data"]

ForkKind == <<"input", "op", "op">>

ForkEdges == {DataEdge(1, 2, 0), DataEdge(2, 3, 0), DataEdge(1, 3, 1)}

(* A chain of three ops, so that one op can move down twice.               *)
ChainKind == <<"input", "op", "op", "op">>

ChainEdges == {DataEdge(1, 2, 0), DataEdge(2, 3, 0), DataEdge(3, 4, 0)}
=============================================================================
