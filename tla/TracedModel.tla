----------------------------- MODULE TracedModel -----------------------------
(***************************************************************************)
(* generate_graph of compile.py: the graph of a model to train, which is   *)
(* given by its inputs, its ops with the numbers of their operands, and    *)
(* its outputs.                                                            *)
(***************************************************************************)
EXTENDS TrainingGraph

\* Tensors are traced from the outputs back, breadth first, and get their nodes in
\* this order.
RECURSIVE Traced(_, _, _)
Traced(g, pending, visited) ==
    IF pending = <<>> THEN visited
    ELSE IF Head(pending) \in ToSet(visited) THEN Traced(g, Tail(pending), visited)
    ELSE Traced(g, Tail(pending) \o g.operands[Head(pending)], Append(visited, Head(pending)))

\* The graph of a model: its inputs, ops and outputs are numbered in this order.
GraphOf(p) ==
    LET ins == FoldLeftDomain(LAMBDA g, i : add_node(g, In(i),
                   [Node("Input", p.inputs[i].kind, "Forward") EXCEPT !.grad = p.inputs[i].grad], <<>>),
                   EmptyGraph, p.inputs)
        ops == FoldLeft(LAMBDA g, o : add_node(g, Fresh(g), Node("PyOp", o.kind, "Forward"),
                                               [i \in DOMAIN o.operands |-> In(o.operands[i])]), ins, p.ops)
        all == FoldLeft(LAMBDA g, o : add_node(g, Fresh(g),
                            [Node("Output", "none", "Forward") EXCEPT !.loss = p.loss], <<In(o)>>), ops, p.outputs)
        outs == nodes_by_type(all, "Output")
    IN  [all EXCEPT !.nodes = Traced(all, outs, <<>>),
                    !.inputs = Only(ins.nodes, {n \in DOMAIN all.node : all.node[n].kind = "Activation"}),
                    !.outputs = outs]

=============================================================================
