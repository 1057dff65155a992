------------------------------ MODULE ConstantFolding ------------------------------
(***********************************************************************************)
(* passes/constant_folding.cpp: eltwise ops of a constant and a computed value are *)
(* folded into the weights of the matmuls behind the value, or joined with the op  *)
(* before them.  The guarded swap above a narrow is in GraphLib; no narrow is      *)
(* lowered, and no graph here has one.                                             *)
(***********************************************************************************)
EXTENDS TmCleanups

NoNode == 0

(* The constant operand or else the second one, if it is an input at all.          *)
get_constant_input(g, n) ==
  LET in == data_operands(g, n)
      c == IF Op(g, in[1]) = "constant" THEN in[1] ELSE in[2]
  IN IF Op(g, c) \in Inputs THEN c ELSE NoNode

get_producer_input(g, n) ==
  LET in == data_operands(g, n)
      p == IF IsOpNode(g, in[1]) THEN in[1] ELSE in[2]
  IN IF IsOpNode(g, p) THEN p ELSE NoNode

is_constant_eltwise_binary(g, n) ==
  Op(g, n) \in Binary /\ NoNode \notin {get_constant_input(g, n), get_producer_input(g, n)}

(* find_operands_commute_through: the matmuls that n adds up, if it is nothing     *)
(* else, in the order the stack of the search finds them.                          *)
RECURSIVE AddsUpMatmuls(_, _)
AddsUpMatmuls(g, n) ==
  \/ Op(g, n) = "matmul"
  \/ Op(g, n) \in {"add", "nop"} /\ \A m \in ToSet(data_operands(g, n)) : AddsUpMatmuls(g, m)
RECURSIVE Matmuls(_, _)
Matmuls(g, n) ==
  IF Op(g, n) = "matmul" THEN <<n>>
  ELSE FoldLeft(LAMBDA found, m : Matmuls(g, m) \o found, <<>>, data_operands(g, n))

Between(g, producer, consumer) == {e \in g.edge : e.from = producer /\ e.to = consumer}
TheEdge(g, producer, consumer) == CHOOSE e \in Between(g, producer, consumer) : TRUE
WithoutEdge(g, e) == [g EXCEPT !.edge = @ \ {e}]

(* One matmul gets the constant's factor: its weight is multiplied by a copy of    *)
(* the constant.  Both clones are named after the multiply, so that none of an     *)
(* earlier matmul may be left; nor may the weight be no input any more.            *)
WithCopyOf(g, c, op) == add_edge(add_node(g, c), g.next, op, 1)
FoldInto(g, multiply, c, first, m) ==
  LET weight == operand_data_edges(g, m)[2]
      scale == [g.node[multiply] EXCEPT !.shape = g.node[weight.from].shape]
  IN IF ~g.ok THEN g
     ELSE IF Op(g, weight.from) \notin Known \/ \E x \in DOMAIN g.node : x >= first THEN Assert_(g, FALSE)
     ELSE try_consteval_op(WithCopyOf(insert_node_on_edge(g, weight, scale), g.node[c], g.next), g.next)

RemoveUnused(g, c) == IF data_users(g, c) # <<>> THEN g ELSE remove_node(g, c)

Without(g, multiply, c) == IF ~g.ok THEN g ELSE RemoveUnused(bypass_node(g, multiply, Leave), c)
try_fold_constant_multiply_into_matmul_rhs(g, operand, multiply) ==
  LET c == get_constant_input(g, multiply)
      shape == g.node[c].shape
      matmuls == Matmuls(g, operand)
  IN IF \/ Op(g, multiply) # "multiply"
        \/ ~AddsUpMatmuls(g, operand)
        \/ Volume(shape) # Last(shape)
        \/ \E m \in ToSet(matmuls) : Op(g, data_operands(g, m)[2]) \notin Known
     THEN g
     ELSE Without(FoldLeft(LAMBDA h, m : FoldInto(h, multiply, c, g.next, m), WithoutEdge(g, TheEdge(g, c, multiply)), matmuls),
                  multiply, c)

(* a's constant and b's are joined: b moves from behind a to the edge of a's       *)
(* constant, where it can be evaluated.                                            *)
BehindEdge(g, cb, e, op) == try_consteval_op(add_edge(insert_node_on_edge(g, e, op), cb, g.next, 1), g.next)
try_fold_constant_associative(g, a, b) ==
  LET ca == get_constant_input(g, a)
      cb == get_constant_input(g, b)
      without_b == bypass_node(WithoutEdge(g, TheEdge(g, cb, b)), b, Leave)
  IN IF \/ Op(g, a) # Op(g, b) \/ Op(g, a) \notin {"multiply", "add"}
        \/ ca = NoNode \/ Op(g, ca) # "constant"
        \/ Len(user_data_edges(g, a)) > 1
     THEN g
     ELSE IF Cardinality(Between(g, ca, a)) # 1 THEN Assert_(g, FALSE)
     ELSE BehindEdge(without_b, cb, TheEdge(g, ca, a), g.node[b])

IfChanged(g, h, otherwise) == IF h # g THEN h ELSE otherwise
constant_folding(g, n) ==
  LET producer == get_producer_input(g, n)
  IN IF ~is_constant_eltwise_binary(g, n) THEN g
     ELSE IfChanged(g, try_fold_constant_multiply_into_matmul_rhs(g, producer, n), try_fold_constant_associative(g, producer, n))
====================================================================================
