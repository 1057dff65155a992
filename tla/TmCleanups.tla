-------------------------------- MODULE TmCleanups --------------------------------
(***********************************************************************************)
(* The passes that rewrite TMs for other reasons than an inverse further down:     *)
(* reshapes that follow each other or do nothing, squeezes next to reshapes, ranks *)
(* that differ, and two patterns that are cheaper without a reshape.  As in        *)
(* TmRewrites an operator returns the same graph where it finds nothing to do.     *)
(***********************************************************************************)
EXTENDS TmRewrites

is_reshape(g, n) == Op(g, n) = "reshape"
is_transpose(g, n) == Op(g, n) = "transpose"
Squeezes == {"squeeze", "unsqueeze"}

(* New users other than reshapes get the rank they expect.                         *)
KeepRank(g, new, old) == IF is_reshape(g, new.to) THEN g ELSE handle_change_rank_of_edge(g, new)

(*-------------------------- erase_consecutive_reshape.cpp -----------------------*)
is_reshape_transpose(g, n) ==
  LET s == g.node[n].shape
      d == [i \in 1..2 |-> g.node[n].attr[i]]
  IN /\ is_transpose(g, n)
     /\ IF d[1] - d[2] \in {1, -1} THEN 1 \in {s[Axis(d[1], Len(s))], s[Axis(d[2], Len(s))]}
        ELSE Volume(s) = Max(Range(s))

RECURSIVE path_to_reshape_after_communable_unaries(_, _, _)
path_to_reshape_after_communable_unaries(g, n, path) ==
  LET users == data_users(g, n)
      u == users[1]
  IN IF Len(users) # 1 THEN <<>>
     ELSE IF is_reshape(g, u) THEN path \o <<n, u>>
     ELSE IF Op(g, u) \in Eltwise THEN path_to_reshape_after_communable_unaries(g, u, Append(path, n))
     ELSE <<>>

(* The ops up to the last reshape take the shape before the first TM; other        *)
(* operands get a copy of the last reshape for it.                                 *)
commute_eltwise_ops(g, path) ==
  LET shape == shape_of_only_operand(g, path[1])
      Clone(h, e) == insert_node_on_edge(h, e, [CopyFor(h.node[Last(path)], shape) EXCEPT !.keep = TRUE])
      Other(h, i) == LET es == operand_data_edges(h, path[i])
                     IN IF es[1].from = path[i - 1] THEN es[2] ELSE es[1]
      Commute(h, i) ==
        LET h1 == set_shape(h, path[i], shape)
        IN IF Op(h, path[i]) \notin Binary THEN h1
           ELSE Constant(handle_change_rank(Clone(h1, Other(h1, i)), h1.next), h1.next)
  IN FoldLeft(Commute, g, [i \in 1..Len(path) - 1 |-> i])

is_nop_reshape(g, n) ==
  /\ is_reshape(g, n)
  /\ Op(g, data_operands(g, n)[1]) \notin Inputs
  /\ SameShape(shape_of_only_operand(g, n), g.node[n].shape)

erase_consecutive_reshape(g, n) ==
  LET Starts == IsOpNode(g, n) /\ (is_reshape(g, n) \/ is_reshape_transpose(g, n))
      path == path_to_reshape_after_communable_unaries(g, n, <<>>)
  IN IF Len(data_users(g, n)) # 1 \/ g.node[n].keep THEN g
     ELSE IF Starts /\ path # <<>> THEN bypass_node(commute_eltwise_ops(g, path), n, KeepRank)
     ELSE IF is_nop_reshape(g, n) THEN bypass_node(g, n, KeepRank) ELSE g

bypass_nop_tms(g, n) == IF data_users(g, n) # <<>> /\ is_nop_reshape(g, n) THEN bypass_node(g, n, KeepRank) ELSE g

(*------------------------------ explicate_unsqueeze.cpp -------------------------*)
UnsqueezeTo(g, n, operand, rank) ==
  LET Step(s, r) ==
        LET e == CHOOSE x \in s.g.edge : x.from = s.operand /\ x.to = n
            node == [op |-> "unsqueeze", attr |-> <<0>>, legacy |-> <<0, 0>>, keep |-> FALSE, data |-> <<>>,
                     shape |-> as_rank(s.g.node[s.operand].shape, r)]
        IN [g |-> insert_node_on_edge(s.g, e, node), operand |-> s.g.next]
      from == Rank(g, operand)
  IN recalculate_shapes(
       FoldLeft(Step, [g |-> g, operand |-> operand], [i \in 1..rank - from |-> from + i]).g)

explicate_unsqueeze(g) ==
  LET Explicate(h, n) ==
        LET in == data_operands(h, n)
            low == IF Rank(h, in[1]) < Rank(h, in[2]) THEN in[1] ELSE in[2]
            rank == Max({Rank(h, in[1]), Rank(h, in[2])})
        IN IF Op(h, n) \notin Binary THEN h
           ELSE IF Rank(h, low) = rank \/ Op(h, low) \in Inputs THEN h
           ELSE UnsqueezeTo(h, n, low, rank)
  IN FoldLeft(Explicate, g, topological_sort(g))

(* Every reshape with one user takes over a squeeze or unsqueeze after it, and one *)
(* before it is bypassed for all its users; in which order they go is open.        *)
hoist_unsqueeze_squeeze_to_reshape(g, order) ==
  LET Alone(n) == is_reshape(g, n) /\ Len(data_users(g, n)) = 1
      TakesOver(n) == Alone(n) /\ Op(g, data_users(g, n)[1]) \in Squeezes
      Taken(n) == LET s == g.node[data_users(g, n)[1]].shape
                  IN [g.node[n] EXCEPT !.attr = s, !.legacy = s, !.shape = s]
      g1 == [g EXCEPT !.node = [n \in DOMAIN @ |-> IF TakesOver(n) THEN Taken(n) ELSE @[n]]]
  IN recalculate_shapes(FoldLeft(LAMBDA h, n : bypass_node(h, n, Leave), g1, order))
nodes_to_remove(g) ==
  {n \in DOMAIN g.node :
     /\ Op(g, n) \in Squeezes
     /\ \E m \in DOMAIN g.node : /\ is_reshape(g, m)
                                 /\ Len(data_users(g, m)) = 1
                                 /\ n = data_users(g, m)[1] \/ n = data_operands(g, m)[1]}

(*--------------------------- decompose_nd_reshape_split.cpp ---------------------*)
(* A reshape that splits a dimension and is only indexed, one slice each.          *)
IndexesAll(g, n, consumers) ==
  LET c == g.node[consumers[1]]
      dim == Axis(c.legacy[1], Len(c.shape))
      AttrsOf(m) == g.node[m].legacy
  IN /\ consumers # <<>>
     /\ \A m \in Range(consumers) :
          /\ Op(g, m) = "index"
          /\ AttrsOf(m)[1] = c.legacy[1] /\ SameShape(g.node[m].shape, c.shape) /\ AttrsOf(m)[4] = 1
          /\ AttrsOf(m)[3] - AttrsOf(m)[2] = 1
     /\ FoldLeft(LAMBDA sum, m : sum + g.node[m].shape[dim], 0, consumers) = g.node[n].shape[dim]

(* The user of an index is taken for an op.                                        *)
IsSqueezed(g, m) ==
  LET u == data_users(g, m)[1]
  IN /\ Len(data_users(g, m)) = 1 /\ is_reshape(g, u)
     /\ Volume(g.node[u].shape) = Volume(g.node[m].shape) /\ Rank(g, u) + 1 = Rank(g, m)
NoOpAfter(g, m) == Len(data_users(g, m)) = 1 /\ Op(g, data_users(g, m)[1]) = "output"

(* The dimension that was split, 0 if there is none: the one the indices select in *)
(* is not asked for.                                                               *)
SplitDim(g, n) ==
  LET from == shape_of_only_operand(g, n)
      to == g.node[n].shape
      Differ == {i \in DOMAIN from : from[i] # to[i]}
      d == Min(Differ)
  IN IF Differ = {} THEN 0 ELSE IF from[d] = to[d] * to[d + 1] THEN d ELSE 0

Slices(g, n, consumers) ==
  LET c == g.node[consumers[1]] IN g.node[n].shape[Axis(c.legacy[1], Len(c.shape))]
Divides(g, n, consumers) == shape_of_only_operand(g, n)[SplitDim(g, n)] % Slices(g, n, consumers) = 0
Sliced(g, n, consumers) ==
  LET d == SplitDim(g, n)
      from == shape_of_only_operand(g, n)
      size == from[d] \div Slices(g, n, consumers)
      Slice(node) ==
        LET begin == node.legacy[2] * size
            attrs == <<d - 1, begin, begin + size, 1>>
        IN [node EXCEPT !.attr = attrs, !.legacy = attrs, !.shape = [from EXCEPT ![d] = size]]
      g1 == [g EXCEPT !.node = [m \in DOMAIN @ |-> IF m \in Range(consumers) THEN Slice(@[m]) ELSE @[m]]]
  IN recalculate_shapes(bypass_node(g1, n, Leave))

decompose_nd_reshape_split(g) ==
  LET Decompose(h, n) ==
        LET consumers == data_users(h, n)
            other == SelectInSeq(consumers, LAMBDA m : ~IsSqueezed(h, m))
        IN IF ~h.ok \/ ~is_reshape(h, n) THEN h
           ELSE IF Rank(h, n) # Len(shape_of_only_operand(h, n)) + 1 \/ ~IndexesAll(h, n, consumers) THEN h
           ELSE IF other # 0 THEN Assert_(h, ~NoOpAfter(h, consumers[other]))
           ELSE IF SplitDim(h, n) = 0 THEN h
           ELSE IF ~Divides(h, n, consumers) THEN Assert_(h, FALSE) ELSE Sliced(h, n, consumers)
  IN FoldLeft(Decompose, g, nodes_of(g))

(*------------------------ erase_unnecessary_4d_tm_sequence.cpp ------------------*)
FromRight(dim, rank) == IF dim > 0 THEN dim - rank ELSE dim
involves_w_dim(g, n) == {FromRight(g.node[n].attr[i], Rank(g, n)) : i \in 1..2} = {-4, -3}

path_of_transpose_and_reshape(g, n) ==
  LET Next(m) == IF Len(data_users(g, m)) = 1 THEN data_users(g, m)[1] ELSE 0
      t == Next(n)
      r == Next(t)
      IsOne(m, Is(_, _)) == m # 0 /\ IsOpNode(g, m) /\ Is(g, m)
  IN IF /\ IsOne(t, is_transpose) /\ involves_w_dim(g, t)
        /\ IsOne(r, is_reshape) /\ g.node[r].shape = shape_of_only_operand(g, n)
     THEN <<n, t, r>> ELSE <<>>

(* reshape, transpose, reshape become slices of dimension -3 that are interleaved. *)
commute_4d_tm_ops(g, path) ==
  LET s == g.node[path[1]].shape
      src == data_operands(g, path[1])[1]
      NewNode(op, attr, dim) == [op |-> op, attr |-> attr, legacy |-> attr, keep |-> FALSE, data |-> <<>>,
                                 shape |-> <<1, dim, s[3], s[4]>>]
      Select(i) == NewNode("select", <<-3, (i - 1) * s[2], s[2], s[1] * s[2]>>, s[2])
      slices == [i \in 1..s[1] |-> i]
      g1 == FoldLeft(LAMBDA h, i : add_node(h, Select(i)), g, slices)
      g2 == add_node(g1, NewNode("interleave", <<-3, 1>>, s[1] * s[2]))
      interleave == g1.next
      Connect(h, i) == add_edge(add_edge(h, src, g.next + i - 1, 0), g.next + i - 1, interleave, i - 1)
      g3 == FoldLeft(LAMBDA h, e : add_edge(h, interleave, e.to, e.port),
                     FoldLeft(Connect, g2, slices), user_data_edges(g, Last(path)))
      Gone == {path[2], path[3]}
  IN [g3 EXCEPT !.node = [m \in DOMAIN @ \ Gone |-> @[m]], !.edge = {e \in @ : {e.from, e.to} \cap Gone = {}}]

erase_unnecessary_4d_tm_sequence(g, n) ==
  LET path == path_of_transpose_and_reshape(g, n)
  IN IF Len(data_users(g, n)) # 1 \/ ~is_reshape(g, n) THEN g
     ELSE IF path = <<>> THEN g ELSE bypass_node(commute_4d_tm_ops(g, path), n, KeepRank)
====================================================================================
