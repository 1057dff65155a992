------------------------------- MODULE MCTmPasses -------------------------------
(***********************************************************************************)
(* Small graphs for TmPasses.  A program is a sequence of nodes, each with an      *)
(* operator, its attributes and the numbers of its operands; as in the graphs      *)
(* compile.py makes, the edges into outputs are the first of their producers.      *)
(***********************************************************************************)
EXTENDS TmPasses

N(op, attr, from) == [op |-> op, attr |-> attr, from |-> from]
X(shape) == N("input", shape, <<>>)
W(shape) == N("param", shape, <<>>)
Out(i) == N("output", <<>>, <<i>>)
Reshape(shape, i) == N("reshape", shape, <<i>>)
Transpose(i) == N("transpose", <<-2, -1>>, <<i>>)
Squeeze(dim, i) == N("squeeze", <<dim>>, <<i>>)
Unsqueeze(dim, i) == N("unsqueeze", <<dim>>, <<i>>)
Relu(i) == N("relu", <<>>, <<i>>)
Subtract(i, j) == N("subtract", <<>>, <<i, j>>)
Add(i, j) == N("add", <<>>, <<i, j>>)
Multiply(i, j) == N("multiply", <<>>, <<i, j>>)
Matmul(i, j) == N("matmul", <<>>, <<i, j>>)
C(shape) == N("constant", shape, <<>>)
Reduce(dim, i) == N("reduce_sum", <<dim>>, <<i>>)
Index(dim, k, i) == N("index", <<dim, k, k + 1, 1>>, <<i>>)

Legacy(n, rank) ==
  CASE n.op = "reshape" -> <<>>
    [] n.op = "unsqueeze" -> <<n.attr[1], rank>>
    [] OTHER -> n.attr

NodeOf(made, n, id) ==
  LET in == [i \in DOMAIN n.from |-> made[n.from[i]].shape]
      IsInput == n.op \in Inputs
      shape == IF IsInput THEN n.attr ELSE get_op_shape(n.op, n.attr, in)
  IN [op |-> n.op, shape |-> shape, attr |-> IF IsInput THEN <<>> ELSE n.attr,
      legacy |-> IF IsInput THEN <<>> ELSE Legacy(n, IF in = <<>> THEN 0 ELSE Len(in[1])), keep |-> FALSE,
      data |-> IF IsInput THEN [k \in 1..Volume(shape) |-> (7 * k * k + 31 * id + 5) % P] ELSE <<>>]
NodesOf(p) == FoldLeft(LAMBDA made, i : Append(made, NodeOf(made, p[i], i)), <<>>, [i \in DOMAIN p |-> i])

GraphOf(p) ==
  LET list == NodesOf(p)
      Edges == {<<i, port>> \in (DOMAIN p) \X (1..2) : port <= Len(p[i].from)}
      Before(a, b) == LET oa == p[a[1]].op = "output"
                          ob == p[b[1]].op = "output"
                      IN IF oa # ob THEN oa ELSE a[1] < b[1] \/ (a[1] = b[1] /\ a[2] < b[2])
      order == SortSeq(Listed(Edges), Before)
  IN [node |-> list,
      edge |-> {[from |-> p[order[k][1]].from[order[k][2]], to |-> order[k][1], port |-> order[k][2] - 1,
                 id |-> Len(p) + k] : k \in DOMAIN order},
      next |-> Len(p) + Len(order) + 1, ok |-> TRUE]
Fits(p) == \A n \in ToSet(NodesOf(p)) : n.shape # BROKEN

(* Chains of TMs and eltwise ops.  One op is no TM: an input that becomes the       *)
(* operand of an output has no op to clone for a change of rank.                   *)
Links(i) ==
  {Reshape(<<2, 3>>, i), Reshape(<<3, 2>>, i), Reshape(<<2, 1, 3>>, i), Transpose(i), Relu(i),
   Unsqueeze(0, i), Unsqueeze(1, i), Squeeze(0, i), Squeeze(1, i)}
Extended(S, m) ==
  LET Longer(q) == {p \in {Append(q, l) : l \in Links(Len(q))} : Fits(p)}
  IN FoldLeft(LAMBDA found, k : found \cup UNION {Longer(q) : q \in found}, S, [k \in 1..m |-> k])
WithOutput(S) == {Append(p, Out(Len(p))) : p \in S}
Chains(m) == WithOutput({p \in Extended({<<X(<<2, 3>>)>>}, m) : \E i \in DOMAIN p : p[i].op = "relu"})

(* A chain joined by a second operand, for which no inner dimension was unsqueezed *)
(* before: erase_inverse_ops would squeeze the operand's first dimension.          *)
Shape(p) == NodesOf(p)[Len(p)].shape
Joined(before, after, kinds) ==
  LET Join(q, kind) == q \o <<N(kind, Shape(q), <<>>), Subtract(Len(q), Len(q) + 1)>>
      Unmovable(q) == \E i \in DOMAIN q : q[i] = Unsqueeze(1, i - 1)
      First == {q \in Extended({<<X(<<2, 3>>), Relu(1)>>}, before) : ~Unmovable(q)}
  IN WithOutput(Extended({Join(q, kind) : q \in First, kind \in kinds}, after))

(* A chain with two ends: the second leaves node Len(q).  No output is a second    *)
(* user, which insert_inverse_on_outputs would follow as an op, and what forks has *)
(* no squeezes before it, which the hoist would bypass for one branch and for all. *)
Forked(before, left, right) ==
  LET Branch(q, l) == Extended({Append(l, t) : t \in {u \in Links(Len(q)) : Fits(Append(l, u))}}, right)
      Ends(q, l, r) == r \o <<Relu(Len(l)), Relu(Len(r)), Out(Len(r) + 1), Out(Len(r) + 2)>>
      Stems == {q \in Extended({<<X(<<2, 3>>), Relu(1)>>}, before) : \A i \in DOMAIN q : q[i].op \notin Squeezes}
  IN UNION {UNION {{Ends(q, l, r) : r \in Branch(q, l)} : l \in Extended({q}, left) \ {q}} : q \in Stems}

(* The patterns single passes look for.                                            *)
Patterns == {
  \* two reduces of neighbouring dimensions between a reshape and its inverse
  <<X(<<1, 1, 6>>), Relu(1), Reshape(<<1, 2, 3>>, 2), Reduce(1, 3), Reduce(2, 4), Reshape(<<1, 1, 1>>, 5), Out(6)>>,
  <<X(<<2, 3>>), Relu(1), Transpose(2), Reduce(1, 3), Transpose(4), Out(5)>>,
  <<X(<<2, 3>>), Relu(1), Reshape(<<1, 2, 3>>, 2), Reduce(2, 3), Reshape(<<2, 1>>, 4), Out(5)>>,
  \* a difference of a value and itself, and of two branches
  <<X(<<2, 3>>), Relu(1), Reshape(<<3, 2>>, 2), Subtract(3, 3), Reshape(<<2, 3>>, 4), Out(5)>>,
  <<X(<<2, 3>>), Relu(1), Reshape(<<3, 2>>, 2), Relu(3), Subtract(3, 4), Reshape(<<2, 3>>, 5), Out(6)>>,
  <<X(<<2, 3>>), Relu(1), Transpose(2), Relu(3), Subtract(4, 3), Transpose(5), Relu(6), Out(7)>>,
  \* operands of different rank
  <<X(<<1, 2, 3>>), X(<<2, 3>>), Relu(1), Relu(2), Subtract(3, 4), Out(5)>>,
  <<X(<<2, 3>>), Relu(1), X(<<1, 1, 2, 3>>), Relu(3), Subtract(2, 4), Transpose(5), Out(6)>>,
  \* a dimension split and its parts selected
  <<X(<<2, 12>>), Reshape(<<2, 2, 6>>, 1), Index(1, 0, 2), Index(1, 1, 2), Reshape(<<2, 6>>, 3), Reshape(<<2, 6>>, 4),
    Relu(5), Relu(6), Out(7), Out(8)>>,
  \* reshape, transpose, reshape in four dimensions
  <<X(<<1, 4, 1, 2>>), Relu(1), Reshape(<<2, 2, 1, 2>>, 2), N("transpose", <<-4, -3>>, <<3>>), Reshape(<<1, 4, 1, 2>>, 4),
    Relu(5), Out(6)>>}

(* Eltwise ops with constants.  One row, so that no operand is broadcast.          *)
Row == <<1, 3>>
Constants == {
  \* two in a row, of the same op or not, with a constant or an activation
  <<X(Row), C(Row), C(Row), Relu(1), Multiply(4, 2), Multiply(5, 3), Out(6)>>,
  <<X(Row), C(Row), C(Row), Relu(1), Add(2, 4), Add(3, 5), Relu(6), Out(7)>>,
  <<X(Row), C(Row), X(Row), Relu(1), Add(4, 2), Add(5, 3), Out(6)>>,
  <<X(Row), C(Row), W(Row), Relu(1), Add(4, 2), Multiply(5, 3), Out(6)>>,
  <<X(Row), C(Row), C(Row), Relu(1), Subtract(4, 2), Subtract(5, 3), Out(6)>>,
  \* a constant of both, and a value with another user
  <<X(Row), C(Row), Relu(1), Add(3, 2), Add(4, 2), Out(5)>>,
  <<X(Row), C(Row), C(Row), Relu(1), Multiply(4, 2), Multiply(5, 3), Relu(5), Out(6), Out(7)>>,
  \* a product that is scaled, and a sum of products, with a nop on the way
  <<X(<<1, 1>>), W(Row), C(Row), Relu(1), Matmul(4, 2), Multiply(5, 3), Out(6)>>,
  <<X(<<1, 1>>), C(Row), C(Row), Relu(1), Matmul(4, 2), N("nop", <<>>, <<5>>), Multiply(3, 6), Multiply(7, 3), Out(8)>>,
  <<X(<<1, 1>>), W(Row), W(Row), C(Row), Relu(1), Matmul(5, 2), Matmul(5, 3), Add(6, 7), Multiply(8, 4), Relu(9), Out(10)>>,
  <<X(<<1, 1>>), W(Row), C(Row), Relu(1), Matmul(4, 2), Multiply(5, 3), Relu(2), Out(6), Out(7)>>,
  <<X(<<1, 1>>), W(Row), C(Row), W(Row), Relu(1), Matmul(5, 2), Add(6, 4), Multiply(7, 3), Out(8)>>}

(* A product that is scaled for one of its users.                                  *)
HalfScaled == {GraphOf(<<X(<<1, 1>>), W(Row), C(Row), Relu(1), Matmul(4, 2), Multiply(5, 3), Relu(5), Out(6), Out(7)>>)}

(* A last dimension of pairs, taken apart into the first and the second of each.   *)
Pairs ==
  <<X(<<2, 12>>), Reshape(<<2, 6, 2>>, 1), Index(2, 0, 2), Index(2, 1, 2), Reshape(<<2, 6>>, 3), Reshape(<<2, 6>>, 4),
    Relu(5), Relu(6), Out(7), Out(8)>>
PairGraphs == {GraphOf(Pairs)}

MCGraphs == {GraphOf(p) : p \in Chains(3) \cup Joined(2, 1, {"param", "input"}) \cup Forked(1, 1, 0) \cup Patterns \cup Constants}
====================================================================================
