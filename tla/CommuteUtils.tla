------------------------------- MODULE CommuteUtils -------------------------------
(***********************************************************************************)
(* What a TM may be moved past (src/forge/csrc/passes/commute_utils.cpp).  A walk  *)
(* from an initial TM carries two shapes: commute, what the tensor has where the   *)
(* TM is gone, and clone, what a copy of the TM has to make of it there.           *)
(***********************************************************************************)
EXTENDS TmGraph

(*------------------------------ one dimension of a TM ---------------------------*)
volume_above(s, i) == Volume(SubSeq(s, 1, i - 1))
volume_below(s, i) == Volume(SubSeq(s, i, Len(s)))

NONE == -1
can_commute_reshape_through_dim(input, output, dim, up) ==
  LET from == IF up THEN output ELSE input
      to == IF up THEN input ELSE output
      Kept == {i \in DOMAIN from :
                 /\ dim \in DOMAIN to
                 /\ from[i] = to[dim]
                 /\ volume_above(from, i) = volume_above(to, dim)
                 /\ volume_below(from, i) = volume_below(to, dim)}
  IN IF Kept = {} THEN NONE ELSE Min(Kept)

(* Where dimension dim of the TM's result is before the TM; NONE if it is lost.    *)
can_commute_through_dim(g, initial, dim, up) ==
  LET r == Rank(g, initial)
      Dims == [i \in 1..2 |-> Axis(g.node[initial].attr[i], r)]
  IN CASE Op(g, initial) = "reshape" ->
            can_commute_reshape_through_dim(shape_of_only_operand(g, initial), g.node[initial].shape, dim, up)
       [] Op(g, initial) = "transpose" /\ dim \in 1..r ->
            IF dim = Dims[1] THEN Dims[2] ELSE IF dim = Dims[2] THEN Dims[1] ELSE dim
       [] OTHER -> NONE

(*---------------------------------- inverse TMs ---------------------------------*)
(* match_squeeze asks for the same pair as match_unsqueeze.                        *)
match_unsqueeze(a, b) == a.op = "unsqueeze" /\ b.op = "squeeze" /\ a.legacy[1] = b.legacy[1]
match_reshape(a, b) == a.op = "reshape"
match_transpose(a, b) == a.op = "transpose" /\ {a.attr[1], a.attr[2]} = {b.attr[1], b.attr[2]}

are_compatible_ops(g, a, b, shape, check_inverse) ==
  LET na == g.node[a]
      nb == g.node[b]
      SameTm == na.op \in Tms /\ (na.op = nb.op \/ {na.op, nb.op} = {"squeeze", "unsqueeze"})
  IN IF a = b THEN ~check_inverse
     ELSE /\ SameTm
          /\ SameShape(shape, IF check_inverse THEN nb.shape ELSE shape_of_only_operand(g, b))
          /\ ~nb.keep
          /\ match_unsqueeze(na, nb) \/ match_reshape(na, nb) \/ match_transpose(na, nb)

(*------------------------------- moving past an op ------------------------------*)
(* A walk's shapes, whether the TM may pass, and whether no assertion failed.      *)
Walk(can, commute, clone, ok) == [can |-> can, commute |-> commute, clone |-> clone, ok |-> ok]

ReduceDim(g, n, rank) == Axis(g.node[n].legacy[1], rank)
Padded(s, r) == IF r <= Len(s) THEN s ELSE s \o [i \in 1..(r - Len(s)) |-> 1]
Neighbours(i, j) == i = j + 1 \/ i = j - 1
Alike(g, n, others) == SelectSeq(others, LAMBDA m : Op(g, m) = Op(g, n))
NoClone == <<>>
At(s, i, v) == IF s = NoClone THEN s ELSE [s EXCEPT ![i] = v]

(* This reduce and the next one m before the TM: the dimension they reduce is one  *)
(* there, unless m blocks the way.                                                 *)
ReducePair(g, n, m, w, up, compare) ==
  LET dim == ReduceDim(g, n, Rank(g, n))
      d == ReduceDim(g, m, Rank(g, m))
      last == Max({dim, d})
      merged == last - (Rank(g, n) - Len(w.commute))
      in_range == merged \in DOMAIN w.commute /\ last \in DOMAIN compare
  IN [in_range |-> in_range, next |-> Neighbours(dim, d),
      blocks |-> ~in_range \/ w.commute[merged] # (IF up THEN 1 ELSE compare[dim] * compare[d])]

ReduceDecided(w, pair, check_only) ==
  [w EXCEPT !.can = ~pair.blocks, !.ok = @ /\ pair.in_range /\ (check_only \/ ~pair.blocks)]

(* The first of the reduces next to this one that decides.                         *)
ReduceNext(g, n, w, up, check_only) ==
  LET compare == IF check_only THEN shape_of_only_operand(g, n) ELSE w.clone
      Pair(m) == ReducePair(g, n, m, w, up, compare)
      others == Alike(g, n, IF up THEN data_operands(g, n) ELSE data_users(g, n))
      deciding == SelectSeq(Tabulated([i \in DOMAIN others |-> Pair(others[i])]), LAMBDA p : p.blocks \/ p.next)
  IN IF deciding = <<>> THEN w ELSE ReduceDecided(w, Head(deciding), check_only)

(* The second reduce of a pair: both its dimensions are one from here on.  Upwards *)
(* the shape of the producer is read through a pointer that is null for an input.  *)
ReducePrevious(g, n, w, up, producer) ==
  LET dim == ReduceDim(g, n, Rank(g, n))
      previous == Alike(g, n, IF up THEN data_users(g, n) ELSE data_operands(g, n))
      DimOf(m) == ReduceDim(g, m, Rank(g, n))
      Pass(v, m) ==
        LET d == Max({dim, DimOf(m)})
            whole == IF up THEN g.node[producer].shape[dim] * g.node[producer].shape[DimOf(m)] ELSE 1
        IN IF ~Neighbours(dim, DimOf(m)) THEN v
           ELSE IF up /\ ~IsOp(Op(g, producer)) THEN [v EXCEPT !.ok = FALSE]
           ELSE Walk(TRUE, [Padded(v.commute, d) EXCEPT ![d] = whole], At(At(v.clone, dim, 1), DimOf(m), 1), v.ok)
  IN FoldLeft(Pass, w, previous)

(* The answer of can_commute_through_dim goes to a variable that shadows           *)
(* can_commute: the shapes move on, the reduce still blocks the way.               *)
ReduceAlone(g, n, initial, w, up, producer) ==
  LET dim == ReduceDim(g, n, Rank(g, n))
      new == can_commute_through_dim(g, initial, dim, up)
      size == g.node[IF up /\ IsOp(Op(g, producer)) THEN producer ELSE n].shape[dim]
  IN IF w.can \/ new = NONE THEN w
     ELSE IF new \notin DOMAIN w.commute \/ (w.clone # NoClone /\ dim \notin DOMAIN w.clone) THEN [w EXCEPT !.ok = FALSE]
     ELSE [w EXCEPT !.commute[new] = size, !.clone = At(@, dim, size)]

ReduceWalk(g, n, initial, w, up, producer, check_only) ==
  ReduceAlone(g, n, initial, ReducePrevious(g, n, ReduceNext(g, n, w, up, check_only), up, producer), up, producer)

can_commute_past_op(g, n, initial, commute, clone, up, producer) ==
  IF Op(g, n) = "reduce_sum" THEN ReduceWalk(g, n, initial, Walk(FALSE, commute, clone, TRUE), up, producer, TRUE)
  ELSE Walk(Op(g, n) \in Eltwise, commute, clone, TRUE)

(* commute_through_reduce proper: the second reduce of a pair reduces both, and    *)
(* the first becomes a nop.  Evaluation reads the legacy attributes, which stay.   *)
Reduced(g, c, k) == [g |-> g, commute |-> c, clone |-> k]
ReduceCommuted(g, n, initial, producer, next, w) ==
  LET dim == ReduceDim(g, n, Len(w.clone))
      first == ReduceDim(g, producer, Len(w.clone))
      new == can_commute_through_dim(g, initial, dim, FALSE)
      Alone(c) == Reduced(set_shape(g, n, c), c, At(w.clone, dim, 1))
  IN CASE ~w.can \/ ~w.ok -> Reduced(Assert_(g, FALSE), w.commute, w.clone)
       [] w.can /\ w.ok /\ Op(g, next) = Op(g, n) -> Reduced(g, w.commute, w.clone)
       [] w.can /\ w.ok /\ Op(g, next) # Op(g, n) /\ Op(g, producer) = Op(g, n) ->
            Reduced([g EXCEPT !.node[producer].op = "nop"], Padded(w.commute, Max({dim, first})),
                    At(At(w.clone, dim, 1), first, 1))
       [] OTHER -> Alone([w.commute EXCEPT ![IF new = NONE THEN Len(w.commute) ELSE new] = 1])
commute_through_reduce(g, n, initial, producer, next, commute, clone) ==
  ReduceCommuted(g, n, initial, producer, next,
                 ReduceWalk(g, n, initial, Walk(FALSE, commute, clone, TRUE), FALSE, 0, FALSE))

(*----------------------------------- attributes ---------------------------------*)
(* A copy of a TM for a new shape: transposes keep their attributes, and other TMs *)
(* than reshapes have no such copy.                                                *)
\* Mutation: the copy of a reshape still reshapes to the old shape.
CopyFor_attr_kept(node, s) == [node EXCEPT !.shape = s]

CopyFor(node, s) == [node EXCEPT !.shape = s, !.attr = IF node.op = "reshape" THEN s ELSE @]

update_reshape_attr(g, node) == Assert_(g, node.op \in {"reshape", "transpose"})

(*--------------------------------- all the producers ----------------------------*)
RECURSIVE all_producer_forks_have_equivalent(_, _, _, _)
ProducersFrom(g, initial, n, w) ==
  LET operands == data_operands(g, n)
      Past(m) == can_commute_past_op(g, n, initial, w.commute, NoClone, TRUE, m).commute
      ForkHas(m) ==
        \/ Op(g, m) \in Known
        \/ IsOp(Op(g, m)) /\ all_producer_forks_have_equivalent(g, initial, Past(m), m)
  IN /\ \A i \in 2..Len(operands) : ForkHas(operands[i])
     /\ \/ w.found
        \/ /\ w.can
           /\ IsOp(Op(g, operands[1]))
           /\ all_producer_forks_have_equivalent(g, initial, w.commute, operands[1])
all_producer_forks_have_equivalent(g, initial, commute, n) ==
  ProducersFrom(g, initial, n,
    [found |-> are_compatible_ops(g, initial, n, commute, FALSE)]
      @@ can_commute_past_op(g, n, initial, commute, NoClone, TRUE, data_operands(g, n)[1]))
====================================================================================
