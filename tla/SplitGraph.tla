------------------------------ MODULE SplitGraph ------------------------------
(***************************************************************************)
(* passes/split_graph.cpp: a training graph is split into the forward,     *)
(* backward and optimizer graphs that are lowered to functions of their    *)
(* own.  What backward needs of forward crosses as intermediate outputs.   *)
(***************************************************************************)
EXTENDS TrainingGraph

\* Output nodes of the split graphs are named after the node they output.
Suffixed(n, suffix) == <<n[1], Append(n[2], suffix)>>
Intermediate(n) == Suffixed(n, "intermediate")
GradAccumulator(n) == Suffixed(n, "grad_accumulator")
Updated(n) == Suffixed(n, "updated")

has_users_in_bwd(g, n) == \E m \in ToSet(data_users(g, n)) : is_backward(g, m)
has_users_in_opt(g, n) == \E m \in ToSet(data_users(g, n)) : is_optimizer(g, m)

\* An op that backward reads, unless it has an output node already.
needs_intermediate_output(g, n) ==
    /\ is_forward(g, n) /\ g.node[n].type = "PyOp"
    /\ has_users_in_bwd(g, n)
    /\ \A m \in ToSet(data_users(g, n)) : g.node[m].type # "Output"

\* Mutation: one edge for every operand, however many ports it feeds.
clone_and_add_once(g, n, new) ==
    add_node(new, n, g.node[n], SetToSeq({m \in ToSet(g.operands[n]) : m \in DOMAIN new.node}))

\* The clone of node n with the operands that are in the new graph as well.
clone_and_add(g, n, new) ==
    add_node(new, n, g.node[n], Only(g.operands[n], DOMAIN new.node))

-----------------------------------------------------------------------------
\* An output of an op that backward reads is an intermediate too.
IsIntermediate(g, n) == n \in ToSet(g.outputs) /\ has_users_in_bwd(g, g.operands[n][1])
MarkIntermediates(g, nodes) ==
    [n \in DOMAIN nodes |->
        [nodes[n] EXCEPT !.intermediate = @ \/ (n \in DOMAIN g.node /\ IsIntermediate(g, n))]]

extract_forward_graph(g) ==
    LET fwd == FoldLeft(LAMBDA new, n : clone_and_add(g, n, new), EmptyGraph,
                        Only(topological_sort(g), {n \in DOMAIN g.node : is_forward(g, n)}))
        crossing == Only(g.nodes, {n \in DOMAIN g.node : needs_intermediate_output(g, n)})
        both == FoldLeft(LAMBDA new, n :
                            add_node(new, Intermediate(n),
                                     [Node("Output", "none", "Forward") EXCEPT !.intermediate = TRUE], <<n>>),
                         fwd, crossing)
    IN  [both EXCEPT
           !.inputs = Only(ordered_module_inputs(g), {n \in DOMAIN g.node : is_forward(g, n)}),
           !.outputs = g.outputs \o [i \in DOMAIN crossing |-> Intermediate(crossing[i])],
           !.node = MarkIntermediates(g, @)]

-----------------------------------------------------------------------------
\* An operand of a backward node: itself if it is there, else the inputs that
\* stand for the outputs of the forward op.
BackwardOperand(fwd, new, m) ==
    IF m \in DOMAIN new.node THEN <<m>>
    ELSE IF m \in DOMAIN fwd.node
         THEN Only(data_users(fwd, m), {u \in DOMAIN fwd.node : fwd.node[u].type = "Output"} \cap DOMAIN new.node)
         ELSE <<>>

\* A gradient accumulator becomes an output of its operand.
AddBackward(g, fwd, new, n) ==
    IF g.node[n].type = "Queue"
    THEN add_node(new, GradAccumulator(n), Node("Output", "none", "Forward"), g.operands[n])
    ELSE add_node(new, n, g.node[n],
                  FlattenSeq([i \in DOMAIN g.operands[n] |-> BackwardOperand(fwd, new, g.operands[n][i])]))

\* Mutation: the inputs of the forward graph come before the intermediates.
BackwardInputs_swapped(g, fwd, bwd) ==
    LET given == ordered_module_inputs(g)
    IN  Only(given, {n \in DOMAIN g.node : is_backward(g, n)})
        \o Only(given, {n \in DOMAIN g.node : is_forward(g, n)} \cap DOMAIN bwd.node)
        \o Only(fwd.outputs, DOMAIN bwd.node)

\* 1. Inputs that are exclusive to the backward graph
\* 2. Intermediate outputs from the forward graph
\* 3. Inputs from the forward graph that have users in the backward graph
BackwardInputs(g, fwd, bwd) ==
    LET given == ordered_module_inputs(g)
    IN  Only(given, {n \in DOMAIN g.node : is_backward(g, n)})
        \o Only(fwd.outputs, DOMAIN bwd.node)
        \o Only(given, {n \in DOMAIN g.node : is_forward(g, n)} \cap DOMAIN bwd.node)

\* What backward reads of forward: the results that cross, and its inputs.
add_inputs(new, nodes, node) == FoldLeft(LAMBDA h, n : add_node(h, n, node[n], <<>>), new, nodes)
CrossedInputs(fwd) == [n \in DOMAIN fwd.node |-> Node("Input", "Activation", "Forward")]
SharedInputs(g) ==
    Only(nodes_by_type(g, "Input"), {n \in DOMAIN g.node : is_forward(g, n) /\ has_users_in_bwd(g, n)})

extract_backward_graph(g, fwd) ==
    LET crossed == add_inputs(EmptyGraph, ordered_intermediates(fwd), CrossedInputs(fwd))
        shared == add_inputs(crossed, SharedInputs(g), g.node)
        bwd == FoldLeft(LAMBDA new, n : AddBackward(g, fwd, new, n), shared,
                        Only(topological_sort(g), {n \in DOMAIN g.node : is_backward(g, n)}))
    IN  [bwd EXCEPT !.inputs = BackwardInputs(g, fwd, bwd), !.outputs = nodes_by_type(bwd, "Output")]

-----------------------------------------------------------------------------
\* Each input with a loopback edge gets an output that is aliased to it.
Updatable(g) == Only(nodes_by_type(g, "Input"), {e[2] : e \in g.loopback})
ParameterGradients(g) == Only(nodes_by_type(g, "Queue"), {n \in DOMAIN g.node : has_users_in_opt(g, n)})

extract_optimizer_graph(g) ==
    LET updated == [i \in DOMAIN Updatable(g) |-> Updated(Updatable(g)[i])]
        weights == add_inputs(EmptyGraph, Only(Updatable(g), {n \in DOMAIN g.node : ~is_optimizer(g, n)}), g.node)
        grads == add_inputs(weights, ParameterGradients(g),
                            [n \in DOMAIN g.node |-> Node("Input", "Gradient", "Optimizer")])
        ops == FoldLeft(LAMBDA new, n : clone_and_add(g, n, new), grads,
                        Only(topological_sort(g), {n \in DOMAIN g.node : is_optimizer(g, n)}))
        all == FoldLeft(LAMBDA new, e : add_node(new, Updated(e[2]), Node("Output", "none", "Optimizer"), <<e[1]>>),
                        ops, SetToSeq({e \in g.loopback : e[2] \in ToSet(Updatable(g))}))
    IN  [all EXCEPT !.inputs = ParameterGradients(g), !.outputs = updated]

=============================================================================
