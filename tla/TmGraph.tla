---------------------------------- MODULE TmGraph ----------------------------------
(***********************************************************************************)
(* A forward graph as the passes that move tensor manipulations (TMs) see it: ops  *)
(* with their stored shapes and attributes, edges with ports and creation ids, and *)
(* what the graph computes.  The operators are the graph utilities those passes    *)
(* call (src/forge/csrc/graph_lib/utils.cpp, shape.cpp).  No edge has TMs of its   *)
(* own: operands that need an implicit broadcast are outside the model.            *)
(***********************************************************************************)
EXTENDS Integers, SequencesExt, TLC

(* The sequence f with its elements computed once.                                 *)
Tabulated(f) == SubSeq(f, 1, Len(f))

(*------------------------------------ shapes ------------------------------------*)
Volume(s) == FoldLeft(LAMBDA v, d : v * d, 1, s)
RECURSIVE WithoutLeadingOnes(_)
WithoutLeadingOnes(s) == IF s # <<>> /\ s[1] = 1 THEN WithoutLeadingOnes(Tail(s)) ELSE s

(* Shape::operator== compares from the right and takes missing dimensions as 1.    *)
SameShape(a, b) == WithoutLeadingOnes(a) = WithoutLeadingOnes(b)

are_different_ranked_shapes_equivalent(a, b) ==
  LET Core(s) == WithoutLeadingOnes(Reverse(WithoutLeadingOnes(s))) IN Core(a) = Core(b)

as_rank(s, r) ==
  IF Len(s) <= r THEN [i \in 1..(r - Len(s)) |-> 1] \o s ELSE SubSeq(s, Len(s) - r + 1, Len(s))
CanBeRank(s, r) == r > 0 /\ \A i \in 1..(Len(s) - r) : s[i] = 1

(* A dimension as the code numbers it, from 0 or from -1 backwards, as a position. *)
Axis(dim, rank) == (IF dim < 0 THEN dim + rank ELSE dim) + 1
HasAxis(dim, rank) == Axis(dim, rank) \in 1..rank

(*----------------------------------- operators ----------------------------------*)
Tms == {"reshape", "transpose", "squeeze", "unsqueeze"}
Unary == {"relu", "nop"}
Binary == {"add", "subtract", "multiply"}
Eltwise == Unary \cup Binary
Known == {"param", "constant"}     \* inputs known when the graph is compiled
Inputs == Known \cup {"input"}
IsOp(op) == op \notin Inputs \cup {"output"}

(* The shape of an operation whose operands do not fit.                            *)
BROKEN == <<0>>

Swapped(s, i, j) == [s EXCEPT ![i] = s[j], ![j] = s[i]]

(* get_op_shape: the shape of a result from the operands' shapes.                  *)
get_op_shape(op, attr, in) ==
  LET s == in[1]
      r == Len(s)
      At == Axis(attr[1], r)
  IN CASE \E i \in DOMAIN in : in[i] = BROKEN -> BROKEN
       [] op \in Unary \cup {"output"} -> s
       [] op \in Binary -> IF ~SameShape(s, in[2]) THEN BROKEN
                           ELSE IF Len(s) >= Len(in[2]) THEN s ELSE in[2]
       [] op = "reshape" -> IF Volume(attr) = Volume(s) THEN attr ELSE BROKEN
       [] op = "transpose" -> IF HasAxis(attr[1], r) /\ HasAxis(attr[2], r)
                              THEN Swapped(s, At, Axis(attr[2], r)) ELSE BROKEN
       [] op = "squeeze" -> IF HasAxis(attr[1], r) /\ r > 1 /\ s[At] = 1 THEN RemoveAt(s, At) ELSE BROKEN
       [] op = "unsqueeze" -> IF HasAxis(attr[1], r + 1) THEN InsertAt(s, Axis(attr[1], r + 1), 1) ELSE BROKEN
       [] op = "reduce_sum" -> IF HasAxis(attr[1], r) THEN [s EXCEPT ![At] = 1] ELSE BROKEN
       [] op = "matmul" -> IF Len(s) = 2 /\ Len(in[2]) = 2 /\ s[2] = in[2][1] THEN <<s[1], in[2][2]>> ELSE BROKEN
       [] op = "index" -> IF HasAxis(attr[1], r) /\ attr[3] <= s[At] THEN [s EXCEPT ![At] = attr[3] - attr[2]] ELSE BROKEN
       [] op = "select" -> IF HasAxis(attr[1], r) /\ attr[2] + attr[3] <= s[At] THEN [s EXCEPT ![At] = attr[3]] ELSE BROKEN
       [] op = "interleave" -> IF HasAxis(attr[1], r) /\ \A i \in DOMAIN in : in[i] = s
                               THEN [s EXCEPT ![At] = @ * Len(in)] ELSE BROKEN

(*------------------------------------- values -----------------------------------*)
(* Tensors in row-major order; numbers modulo a prime, so that a reordering that   *)
(* matters shows.                                                                  *)
P == 10007
Stride(s, i) == Volume(SubSeq(s, i + 1, Len(s)))
Coords(k, s) == [i \in DOMAIN s |-> ((k - 1) \div Stride(s, i)) % s[i]]
Place(c, s) == 1 + FoldLeftDomain(LAMBDA sum, i : sum + c[i] * Stride(s, i), 0, s)

ValueOf(op, attr, in, out) ==
  LET s == in[1].shape
      At == Axis(attr[1], Len(s))
      From(t, c) == t.data[Place(c, t.shape)]
      Element(k) ==
        LET c == Coords(k, out)
        IN CASE op \in {"reshape", "squeeze", "unsqueeze", "output", "nop"} -> in[1].data[k]
             [] op = "relu" -> (in[1].data[k] * in[1].data[k] + 1) % P
             [] op = "add" -> (in[1].data[k] + in[2].data[k]) % P
             [] op = "subtract" -> (in[1].data[k] + P - in[2].data[k]) % P
             [] op = "multiply" -> (in[1].data[k] * in[2].data[k]) % P
             [] op = "matmul" ->
                  FoldLeft(LAMBDA sum, x : (sum + From(in[1], [c EXCEPT ![2] = x - 1]) * From(in[2], [c EXCEPT ![1] = x - 1])) % P,
                           0, [x \in 1..s[2] |-> x])
             [] op = "transpose" -> From(in[1], Swapped(c, At, Axis(attr[2], Len(s))))
             [] op = "reduce_sum" ->
                  FoldLeft(LAMBDA sum, x : (sum + From(in[1], [c EXCEPT ![At] = x - 1])) % P, 0, [x \in 1..s[At] |-> x])
             [] op \in {"index", "select"} -> From(in[1], [c EXCEPT ![At] = @ + attr[2]])
             [] op = "interleave" -> From(in[1 + (c[At] % Len(in))], [c EXCEPT ![At] = @ \div Len(in)])
  IN [shape |-> out, data |-> IF out = BROKEN THEN <<>> ELSE Tabulated([k \in 1..Volume(out) |-> Element(k)])]
Value(op, attr, in) == ValueOf(op, attr, in, get_op_shape(op, attr, [i \in DOMAIN in |-> in[i].shape]))

(*------------------------------------- graphs -----------------------------------*)
(* node: what each node is; edge: the data edges, each with the consumer's input   *)
(* port and a creation id; next: the ids given so far; ok: no assertion has failed.*)
RECURSIVE Listed(_)
Listed(S) == IF S = {} THEN <<>> ELSE LET x == CHOOSE x \in S : TRUE IN Append(Listed(S \ {x}), x)

operand_data_edges(g, n) == SortSeq(Listed({e \in g.edge : e.to = n}), LAMBDA a, b : a.port < b.port)
user_data_edges(g, n) ==
  SortSeq(Listed({e \in g.edge : e.from = n}), LAMBDA a, b : a.port < b.port \/ (a.port = b.port /\ a.id < b.id))
Producers(es) == Tabulated([i \in DOMAIN es |-> es[i].from])
Consumers(es) == Tabulated([i \in DOMAIN es |-> es[i].to])
data_operands(g, n) == Producers(operand_data_edges(g, n))
data_users(g, n) == Consumers(user_data_edges(g, n))
nodes_of(g) == SortSeq(Listed(DOMAIN g.node), <)
Op(g, n) == g.node[n].op
Rank(g, n) == Len(g.node[n].shape)
shape_of_only_operand(g, n) == g.node[data_operands(g, n)[1]].shape

RECURSIVE VisitNode(_, _, _)
VisitNode(g, done, n) ==
  IF Contains(done, n) THEN done
  ELSE Append(FoldLeft(LAMBDA d, m : VisitNode(g, d, m), done, data_operands(g, n)), n)
topological_sort(g) ==
  FoldLeft(LAMBDA d, n : VisitNode(g, d, n), <<>>, nodes_of(g))

Assert_(g, holds) == [g EXCEPT !.ok = @ /\ holds]
add_node(g, node) == [g EXCEPT !.node = (g.next :> node) @@ @, !.next = @ + 1]
add_edge(g, from, to, port) ==
  [g EXCEPT !.edge = @ \cup {[from |-> from, to |-> to, port |-> port, id |-> g.next]}, !.next = @ + 1]

(* The node is added and put on the edge.  The edge that leaves it is the newest.  *)
insert_node_on_edge(g, e, node) ==
  LET n == g.next
      g1 == add_edge(add_edge(add_node(g, node), e.from, n, 0), n, e.to, e.port)
  IN [g1 EXCEPT !.edge = @ \ {e}]
Newest(g) == CHOOSE e \in g.edge : e.id = g.next - 1

set_shape(g, n, s) == [g EXCEPT !.node[n].shape = s]

(* bypass_node: the operand takes over every user; callback sees each new edge     *)
(* and the one it replaces.                                                        *)
remove_node(g, n) == [g EXCEPT !.node = [m \in DOMAIN @ \ {n} |-> @[m]], !.edge = {e \in @ : n \notin {e.from, e.to}}]
bypass_node(g, n, callback(_, _, _)) ==
  LET src == operand_data_edges(g, n)[1].from
      Called(h, user) == callback(h, Newest(h), user)
  IN remove_node(FoldLeft(LAMBDA h, user : Called(add_edge(h, src, user.to, user.port), user), g, user_data_edges(g, n)), n)

Leave(g, new, old) == g

calculate_and_set_node_shape(g, n) ==
  IF Op(g, n) \in Inputs THEN g
  ELSE LET in == data_operands(g, n)
       IN set_shape(g, n, get_op_shape(Op(g, n), g.node[n].attr, [i \in DOMAIN in |-> g.node[in[i]].shape]))
recalculate_shapes(g) == FoldLeft(calculate_and_set_node_shape, g, topological_sort(g))

(*------------------------------- constants of the graph -------------------------*)
is_consteval_capable_input_type(g, n) == Op(g, n) \in Known
is_consteval_capable_op(g, n) ==
  /\ IsOp(Op(g, n))
  /\ \A m \in ToSet(data_operands(g, n)) : is_consteval_capable_input_type(g, m) /\ Len(data_users(g, m)) = 1

(* promote_node: an op moves into the own graph of its first operand, and with it  *)
(* the constants that are its other operands.                                      *)
Promoted(g, n, in) ==
  LET Operand(m) == [shape |-> g.node[m].shape, data |-> g.node[m].data]
      data == Value(Op(g, n), g.node[n].attr, [i \in DOMAIN in |-> Operand(in[i])]).data
  IN [g EXCEPT !.node = [m \in DOMAIN @ \ ToSet(Tail(in)) |-> @[m]],
               !.node[in[1]].shape = g.node[n].shape, !.node[in[1]].data = data,
               !.edge = {e \in @ : e.to # n \/ e.from = in[1]}]
promote_node(g, n) == bypass_node(Promoted(g, n, data_operands(g, n)), n, Leave)
try_consteval_op(g, n) == IF is_consteval_capable_op(g, n) THEN promote_node(g, n) ELSE g

SameOpAndAttrs(g, m, n) == Op(g, m) = Op(g, n) /\ g.node[m].legacy = g.node[n].legacy
is_consteval_capable_input_no_operand_forks(g, c) ==
  LET users == ToSet(data_users(g, c))
  IN /\ is_consteval_capable_input_type(g, c)
     /\ \A u \in users : IsOp(Op(g, u)) /\ Len(data_operands(g, u)) = 1
     /\ \A u, v \in users : SameOpAndAttrs(g, u, v)
try_consteval_input_no_operand_forks(g, c) ==
  IF ~is_consteval_capable_input_no_operand_forks(g, c) THEN g
  ELSE LET users == data_users(g, c)
       IN FoldLeft(LAMBDA h, u : bypass_node(h, u, Leave), promote_node(g, users[1]), Tail(users))

(*--------------------------------- change of rank -------------------------------*)
(* handle_change_rank: squeezes or unsqueezes, which the passes must not erase,    *)
(* until the producer has the rank the consumer was built for.                     *)
\* Mutation: the rank a consumer expects is the rank it has.
ConsumerRank_as_stored(g, e) == Rank(g, e.to)

ConsumerRank(g, e) ==
  LET r == Rank(g, e.to)
  IN CASE Op(g, e.to) = "reshape" -> Rank(g, e.from)
       [] Op(g, e.to) = "squeeze" -> r + 1
       [] Op(g, e.to) = "unsqueeze" -> r - 1
       [] OTHER -> r

RankChange(op, shape) ==
  [op |-> op, shape |-> shape, attr |-> <<0>>,
   legacy |-> IF op = "squeeze" THEN <<0>> ELSE <<0, Len(shape) - 1>>, keep |-> TRUE, data |-> <<>>]

(* One more squeeze or unsqueeze on the edge; one of its ends must be an op, and   *)
(* only a leading one can go.                                                      *)
OneRank(g, e, op) ==
  LET r == Rank(g, e.from)
      from == g.node[e.from].shape
  IN IF \/ ~IsOp(Op(g, e.to)) /\ ~IsOp(Op(g, e.from))
        \/ op = "squeeze" /\ ~CanBeRank(from, r - 1)
     THEN Assert_(g, FALSE)
     ELSE insert_node_on_edge(g, e, RankChange(op, as_rank(from, IF op = "squeeze" THEN r - 1 ELSE r + 1)))

RECURSIVE ChangeRank(_, _, _)
Onward(g, new, consumer, rank) ==
  ChangeRank(g, IF new \in DOMAIN g.node THEN CHOOSE x \in g.edge : x.from = new
                ELSE operand_data_edges(g, consumer)[1], rank)
ChangedOnce(g, new, consumer, rank) ==
  IF g.ok THEN Onward(try_consteval_op(g, new), new, consumer, rank) ELSE g
ChangeRank(g, e, rank) ==
  IF ~g.ok \/ Rank(g, e.from) = rank THEN g
  ELSE ChangedOnce(OneRank(g, e, IF Rank(g, e.from) < rank THEN "unsqueeze" ELSE "squeeze"), g.next, e.to, rank)
handle_change_rank_of_edge(g, e) == IF e \in g.edge THEN ChangeRank(g, e, ConsumerRank(g, e)) ELSE g
handle_change_rank_of(g, edges) == FoldLeft(handle_change_rank_of_edge, g, edges)
UsersChanged(g, n) == handle_change_rank_of(g, user_data_edges(g, n))
handle_change_rank(g, n) == UsersChanged(handle_change_rank_of(g, operand_data_edges(g, n)), n)

(*-------------------------------- what it computes ------------------------------*)
RECURSIVE Computes(_, _)
Computes(g, n) ==
  IF Op(g, n) \in Inputs THEN [shape |-> g.node[n].shape, data |-> g.node[n].data]
  ELSE LET in == data_operands(g, n)
       IN Value(Op(g, n), g.node[n].attr, Tabulated([i \in DOMAIN in |-> Computes(g, in[i])]))
Outputs(g) == {n \in DOMAIN g.node : Op(g, n) = "output"}
Results(g) == [n \in Outputs(g) |-> Computes(g, n)]
====================================================================================
