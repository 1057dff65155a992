-------------------------------- MODULE TmRewrites --------------------------------
(***********************************************************************************)
(* The rewrites of the TM passes (src/forge/csrc/passes/): each operator takes a   *)
(* graph and a node and returns the rewritten graph, or the same graph where the   *)
(* pass finds nothing to do at that node.                                          *)
(***********************************************************************************)
EXTENDS CommuteUtils

IsOpNode(g, n) == IsOp(Op(g, n))
Movable(g, n, ops) == Op(g, n) \in ops /\ ~g.node[n].keep

(*------------------------------ erase_inverse_ops.cpp ---------------------------*)
Path(nodes, ok) == [nodes |-> nodes, ok |-> ok]
NoPath == Path(<<>>, TRUE)

(* Each walk is in three parts: what the TM may do at n, what the other users or   *)
(* operands of n find, and how the walk goes on along the first of them.           *)
RECURSIVE find_path_to_inverse_op(_, _, _, _, _, _)
PathOnward(g, initial, n, path, w, all_forks) ==
  LET user == data_users(g, n)[1]
  IN IF all_forks /\ IsOpNode(g, user)
     THEN find_path_to_inverse_op(g, initial, w.commute, w.clone, user, Append(path, n)) ELSE NoPath
PathAt(g, initial, n, path, w, found) ==
  LET ForkHas(u) ==
        IsOpNode(g, u) /\ find_path_to_inverse_op(g, initial, w.commute, g.node[initial].shape, u, <<>>).nodes # <<>>
  IN CASE ~w.ok -> Path(<<>>, FALSE)
       [] w.ok /\ found -> Path(Append(path, n), TRUE)
       [] w.ok /\ ~found /\ ~w.can /\ n # initial -> NoPath
       [] OTHER -> PathOnward(g, initial, n, path, w, \A u \in Range(Tail(data_users(g, n))) : ForkHas(u))
find_path_to_inverse_op(g, initial, commute, clone, n, path) ==
  PathAt(g, initial, n, path, can_commute_past_op(g, n, initial, commute, clone, FALSE, 0),
         are_compatible_ops(g, initial, n, commute, TRUE))

(* A user off the path gets a copy of the first TM.                                *)
CloneForks(g, first, producer, consumer, clone) ==
  LET CloneFor(h, e) ==
        LET h1 == update_reshape_attr(h, h.node[first])
        IN IF e.to = consumer \/ ~h.ok THEN h
           ELSE IF ~h1.ok THEN h1
           ELSE handle_change_rank(insert_node_on_edge(h1, e, CopyFor(h.node[first], clone)), h.next)
  IN FoldLeft(CloneFor, g, user_data_edges(g, producer))

(* What an operand off the path gets: a copy of the last TM.  For an unsqueeze the *)
(* copy is turned into a squeeze, and for an input into a reshape, whose rank is   *)
(* the consumer's new one.                                                         *)
OperandClone(g, first, last, operand, consumer, commute) ==
  LET f == g.node[first]
      s == as_rank(g.node[operand].shape, Rank(g, consumer))
      Copy == CopyFor(g.node[last], commute)
  IN CASE f.op \notin {"squeeze", "unsqueeze"} -> Copy
       [] Op(g, operand) \in Inputs -> [Copy EXCEPT !.op = "reshape", !.legacy = <<>>, !.attr = s, !.shape = s]
       [] f.op = "unsqueeze" -> [Copy EXCEPT !.op = "squeeze", !.legacy = <<f.legacy[1]>>, !.attr = <<f.legacy[1]>>]
       [] OTHER -> [Copy EXCEPT !.op = "unsqueeze", !.attr = <<f.legacy[1]>>,
                                !.legacy = <<f.legacy[1], Rank(g, operand)>>]
SqueezeFits(g, first, operand, consumer) ==
  Op(g, first) \in {"squeeze", "unsqueeze"} /\ Op(g, operand) \in Inputs =>
    CanBeRank(g.node[operand].shape, Rank(g, consumer))

Constant(g, clone) ==
  LET c == data_operands(g, clone)[1]
  IN IF Op(g, c) \in Inputs THEN try_consteval_input_no_operand_forks(g, c) ELSE g
CloneOperands(g, first, last, producer, consumer, commute) ==
  LET CloneFor(h, e) ==
        LET h1 == Assert_(h, SqueezeFits(h, first, e.from, consumer))
            Clone == OperandClone(h, first, last, e.from, consumer, commute)
        IN IF e.from = producer \/ ~h.ok THEN h
           ELSE IF ~h1.ok THEN h1
           ELSE Constant(handle_change_rank(insert_node_on_edge(h1, e, Clone), h.next), h.next)
  IN FoldLeft(CloneFor, g, operand_data_edges(g, consumer))

(* One step along the path: forks, the op itself, its other operands.              *)
ForkedAt(s, path, i) == [s EXCEPT !.g = CloneForks(@, path[1], path[i - 1], path[i], s.clone)]
\* Mutation: the op gets the shape it had behind the TM.
PastOp_shape_of_first(s, path, i) ==
  CASE s.g.ok /\ Op(s.g, path[i]) = "reduce_sum" ->
         commute_through_reduce(s.g, path[i], path[1], path[i - 1], path[i + 1], s.commute, s.clone)
    [] s.g.ok /\ Op(s.g, path[i]) \in Eltwise -> [s EXCEPT !.g = set_shape(@, path[i], s.clone)]
    [] OTHER -> s

PastOp(s, path, i) ==
  CASE s.g.ok /\ Op(s.g, path[i]) = "reduce_sum" ->
         commute_through_reduce(s.g, path[i], path[1], path[i - 1], path[i + 1], s.commute, s.clone)
    [] s.g.ok /\ Op(s.g, path[i]) \in Eltwise -> [s EXCEPT !.g = set_shape(@, path[i], s.commute)]
    [] OTHER -> s

WithOperands(s, path, i) ==
  [s EXCEPT !.g = CloneOperands(@, path[1], Last(path), path[i - 1], path[i], s.commute)]
CommutePast(s, path, i) == WithOperands(PastOp(ForkedAt(s, path, i), path, i), path, i)

BypassBoth(g, first, last) ==
  LET Adjacent(old) == Op(g, first) \in {"squeeze", "unsqueeze"} /\ old.from = first /\ old.to = last
      change_rank(h, new, old) == IF Adjacent(old) THEN h ELSE handle_change_rank_of_edge(h, new)
  IN IF ~g.ok THEN g ELSE bypass_node(bypass_node(g, first, change_rank), last, change_rank)

commute_and_bypass(g, path) ==
  IF path = <<>> THEN g
  ELSE BypassBoth(
         FoldLeft(LAMBDA s, i : CommutePast(s, path, i),
                  [g |-> g, commute |-> shape_of_only_operand(g, path[1]), clone |-> g.node[path[1]].shape],
                  [i \in 1..Len(path) - 1 |-> i + 1]).g,
         path[1], Last(path))

Cancelled(g, path) == IF path.ok THEN commute_and_bypass(g, path.nodes) ELSE Assert_(g, FALSE)
erase_inverse_ops(g, n) ==
  IF ~Movable(g, n, Tms) THEN g
  ELSE Cancelled(g, find_path_to_inverse_op(g, n, shape_of_only_operand(g, n), g.node[n].shape, n, <<>>))

(*----------------------------- insert_inverse_on_io.cpp -------------------------*)
(* An edge, what the TM's inverse has to make of it, and what a copy of the TM.    *)
Place_(e, w) == [edge |-> e, commute |-> w.commute, clone |-> w.clone]
Search(found, places, ok) == [found |-> found, places |-> places, ok |-> ok]
Nowhere == Search(FALSE, <<>>, TRUE)
AddNew(places, new) ==
  places \o SelectSeq(new, LAMBDA p : p.edge \notin {places[i].edge : i \in DOMAIN places})

(* A user that is no op is followed through a null pointer: the search starts over *)
(* at the initial op and finds no edge to it.                                      *)
Lost == Search(FALSE, <<>>, FALSE)

RECURSIVE find_commutable_output_edge(_, _, _, _, _)
Settled(r) == ~r.found \/ r.places # <<>> \/ ~r.ok
OutputOnward(g, initial, n, w, forks) ==
  LET users == data_users(g, n)
      AtOutput == Op(g, users[1]) = "output" /\ (n # initial \/ Len(users) > 1)
      AllHave == all_producer_forks_have_equivalent(g, initial, w.commute, n)
  IN CASE Settled(forks) -> forks
       [] ~Settled(forks) /\ ~w.can /\ n # initial -> Nowhere
       [] OTHER ->
            IF IsOpNode(g, users[1]) THEN find_commutable_output_edge(g, initial, w.commute, w.clone, users[1])
            ELSE IF AtOutput /\ AllHave THEN Search(TRUE, <<Place_(user_data_edges(g, n)[1], w)>>, TRUE)
            ELSE Nowhere
OutputAt(g, initial, n, w) ==
  LET Follow(u) == IF IsOpNode(g, u)
                   THEN find_commutable_output_edge(g, initial, w.commute, g.node[initial].shape, u) ELSE Lost
      Fork(r, u) == IF Settled(r) THEN r ELSE Follow(u)
  IN CASE ~w.ok -> Lost
       [] w.ok /\ are_compatible_ops(g, initial, n, w.commute, TRUE) -> Search(TRUE, <<>>, TRUE)
       [] OTHER -> OutputOnward(g, initial, n, w, FoldLeft(Fork, Search(TRUE, <<>>, TRUE), Tail(data_users(g, n))))
find_commutable_output_edge(g, initial, commute, clone, n) ==
  OutputAt(g, initial, n, can_commute_past_op(g, n, initial, commute, clone, FALSE, 0))

(* The walk up: every operand that is not a parameter must lead to an input.       *)
RECURSIVE all_edges_to_input_nodes_commutable(_, _, _, _, _, _)
InputsOnward(g, initial, n, w, forks) ==
  LET m == data_operands(g, n)[1]
  IN CASE ~w.ok \/ ~forks.ok -> Lost
       [] w.ok /\ forks.ok /\ n # initial /\ (~w.can \/ ~forks.found) -> Nowhere
       [] OTHER ->
            IF IsOpNode(g, m)
            THEN all_edges_to_input_nodes_commutable(g, initial, w.commute, w.clone, m, forks.places)
            ELSE IF n = initial THEN Nowhere
            ELSE Search(TRUE, Append(forks.places, Place_(operand_data_edges(g, n)[1], w)), TRUE)
AddInputs(r, up) == Search(up.places # <<>>, r.places \o up.places, up.ok)
InputFork(g, initial, r, m, v) ==
  IF v.can /\ IsOpNode(g, m)
  THEN AddInputs(r, all_edges_to_input_nodes_commutable(g, initial, v.commute, v.clone, m, <<>>))
  ELSE Search(FALSE, r.places, v.ok)
all_edges_to_input_nodes_commutable(g, initial, commute, clone, n, places) ==
  LET operands == data_operands(g, n)
      Past(m) == can_commute_past_op(g, n, initial, commute, clone, TRUE, m)
      Fork(r, m) == IF ~r.found \/ Op(g, m) \in Known THEN r ELSE InputFork(g, initial, r, m, Past(m))
  IN IF Op(g, data_users(g, initial)[1]) = "output" THEN Nowhere
     ELSE InputsOnward(g, initial, n, Past(operands[1]), FoldLeft(Fork, Search(TRUE, places, TRUE), Tail(operands)))

(* The walk down to reshapes the initial one cannot be moved past: found says that *)
(* the caller goes on.                                                             *)
RECURSIVE find_incommutable_downstream_tm(_, _, _, _, _, _, _)
TmsOnward(g, initial, n, w, forks) ==
  LET user == data_users(g, n)[1]
  IN IF ~forks.found \/ ~IsOpNode(g, user) THEN forks
     ELSE find_incommutable_downstream_tm(g, initial, w.commute, w.clone, user, n, forks.places)
AddTms(r, down) == IF down.found THEN Search(TRUE, AddNew(r.places, down.places), TRUE) ELSE down
TmsAt(g, initial, n, previous, places, w, inverse) ==
  LET Follow(u) == find_incommutable_downstream_tm(g, initial, w.commute, g.node[initial].shape, u, n, <<>>)
      Fork(r, u) == IF ~r.found THEN r ELSE IF IsOpNode(g, u) THEN AddTms(r, Follow(u)) ELSE Lost
      Here == AddNew(places, <<Place_(operand_data_edges(g, n)[1], w)>>)
  IN CASE ~w.ok -> Lost
       [] w.ok /\ n # initial /\ inverse -> Search(TRUE, places, TRUE)
       [] w.ok /\ n # initial /\ ~inverse /\ Op(g, n) = "reshape" ->
            Search(TRUE, IF all_producer_forks_have_equivalent(g, initial, w.commute, previous) THEN Here ELSE places, TRUE)
       [] OTHER ->
            IF n # initial /\ ~w.can THEN Nowhere
            ELSE TmsOnward(g, initial, n, w, FoldLeft(Fork, Search(TRUE, places, TRUE), Tail(data_users(g, n))))
TmsFrom(g, initial, n, previous, places, w) ==
  TmsAt(g, initial, n, previous, places, w, are_compatible_ops(g, initial, n, w.commute, TRUE))
find_incommutable_downstream_tm(g, initial, commute, clone, n, previous, places) ==
  TmsFrom(g, initial, n, previous, places, can_commute_past_op(g, n, initial, commute, clone, FALSE, 0))

Kept(node) == [node EXCEPT !.keep = TRUE]

add_inverse_to_output_edge(g, initial, p) ==
  LET node == g.node[initial]
      g1 == insert_node_on_edge(g, p.edge, CopyFor(node, p.commute))
      g2 == insert_node_on_edge(g1, Newest(g1), Kept(CopyFor(node, p.clone)))
  IN handle_change_rank(g2, g1.next)

(* The first copy becomes part of a parameter, where there is one.                 *)
add_inverse_to_input_edge(g, initial, p) ==
  LET node == g.node[initial]
      g1 == insert_node_on_edge(g, p.edge, Kept(CopyFor(node, p.commute)))
      g2 == handle_change_rank(insert_node_on_edge(g1, Newest(g1), CopyFor(node, p.clone)), g1.next)
  IN IF Op(g, p.edge.from) \in Known THEN try_consteval_op(g2, g.next) ELSE g2

add_inverse_to_tm_edge(g, initial, p) == insert_node_on_edge(g, p.edge, CopyFor(g.node[initial], p.commute))

(* The edges a search found get their copies of the TM initial.                    *)
AddAll(g, initial, r, add(_, _, _)) ==
  IF r.ok THEN FoldLeft(LAMBDA h, p : add(h, initial, p), g, r.places) ELSE Assert_(g, FALSE)

insert_inverse_on_outputs(g, n) ==
  IF ~Movable(g, n, {"reshape", "transpose"}) THEN g
  ELSE AddAll(g, n, find_commutable_output_edge(g, n, shape_of_only_operand(g, n), g.node[n].shape, n),
              add_inverse_to_output_edge)

insert_inverse_on_inputs(g, n) ==
  IF ~Movable(g, n, {"reshape", "transpose"}) THEN g
  ELSE AddAll(g, n, all_edges_to_input_nodes_commutable(g, n, g.node[n].shape, shape_of_only_operand(g, n), n, <<>>),
              add_inverse_to_input_edge)

insert_inverse_on_downstream_tms(g, n) ==
  LET from == shape_of_only_operand(g, n)
  IN IF ~Movable(g, n, {"reshape"}) THEN g
     ELSE IF are_different_ranked_shapes_equivalent(from, g.node[n].shape) THEN g
     ELSE AddAll(g, n, find_incommutable_downstream_tm(g, n, from, g.node[n].shape, n, 0, <<>>), add_inverse_to_tm_edge)
====================================================================================
