------------------------------- MODULE Autograd -------------------------------
(***************************************************************************)
(* autograd/autograd.cpp: the backward graph, the optimizer graph and the  *)
(* recomputed forward ops are added to the graph of a model; then its nops *)
(* are removed (run_pre_lowering_passes) and it is split (SplitGraph).     *)
(* What CompiledModel does with the three programs is what the properties  *)
(* compare with the chain rule.                                            *)
(*                                                                         *)
(* Shapes are left out, and with them the broadcast nops and reduce_sums   *)
(* of autograd.  Of the ops four stand for all: add reads the gradient     *)
(* alone, multiply the other operand too, exp its own output, nop nothing  *)
(* but the gradient and is removed later.  Of the optimizers SGD has no    *)
(* state, Adam is reduced to its mean.                                     *)
(***************************************************************************)
EXTENDS SplitGraph

CONSTANTS
    Programs,   \* models: inputs, ops with the numbers of their operands, outputs; and their graphs
    Optimizers  \* values of config.optimizer: "none", "SGD", "Adam"

\* What generate_graph makes: forward nodes, numbered so that there are no cycles;
\* nobody reads an output.
IsTraced(g) ==
    /\ WellFormed(g) /\ Numbered(g)
    /\ \A n \in DOMAIN g.node :
        /\ n = In(n[1]) /\ is_forward(g, n) /\ ~g.node[n].intermediate
        /\ g.node[n].type \in {"Input", "PyOp", "Output"}
        /\ g.node[n].type = "Input" => g.node[n].kind \in {"Parameter", "Activation"}
        /\ g.node[n].type = "Output" => g.node[n].kind = "none" /\ Len(g.operands[n]) = 1
        /\ g.node[n].kind = "Parameter" => g.node[n].type = "Input"
        /\ g.node[n].kind = "nop" => g.node[n].type = "PyOp" /\ Len(g.operands[n]) = 1
        /\ g.node[n].kind = "multiply" => Len(g.operands[n]) = 2
        /\ \A m \in ToSet(g.operands[n]) : g.node[m].type # "Output"
    /\ \A n \in ToSet(g.inputs) : g.node[n].type = "Input" /\ g.node[n].kind = "Activation"
    /\ \A n \in ToSet(g.outputs) : g.node[n].type = "Output"
    /\ g.loopback = {}

\* Every output returns the result of an op, also when nops are skipped: S has the
\* ops whose results are returned.
ReturnsOps(g) ==
    \E S \in SUBSET {n \in DOMAIN g.node : g.node[n].type = "PyOp"} :
        /\ \A n \in S : g.node[n].kind = "nop" => g.operands[n][1] \in S
        /\ \A n \in ToSet(g.outputs) : g.operands[n][1] \in S

\* The graph has the inputs of the model and, in their order, its outputs.
IsGraphOf(g, p) ==
    /\ \A n \in DOMAIN g.node : g.node[n].type = "Input" => n[1] \in DOMAIN p.inputs
    /\ Len(g.outputs) = Len(p.outputs)
    /\ \A i \in DOMAIN g.outputs :
        /\ p.outputs[i] \in 1..Len(p.inputs) + Len(p.ops)
        /\ g.operands[g.outputs[i]] = <<In(p.outputs[i])>>

ASSUME ProgramsAssumption == \A p \in Programs : IsTraced(p.graph)
ASSUME OutputsAssumption == \A p \in Programs : ReturnsOps(p.graph)
ASSUME GraphsAssumption == \A p \in Programs : IsGraphOf(p.graph, p)
ASSUME OptimizersAssumption == Optimizers \subseteq {"none", "SGD", "Adam"}

VARIABLES
    stage,
    program,    \* the model that is compiled
    config,     \* optimizer and recompute of the autograd_config
    graph,
    todo,       \* the nodes the running loop has still to visit
    requires_grad_map,
    fwd_to_out_gradient_map,
    gradient_out,   \* kAutogradInputToGradientOut: the output of an input's gradient
    fwd_to_recompute,
    module      \* the ForgeGraphModule: the split graphs

vars == <<stage, program, config, graph, todo, requires_grad_map, fwd_to_out_gradient_map,
          gradient_out, fwd_to_recompute, module>>

Init ==
    /\ stage = "propagate_requires_grad"
    /\ program \in Programs
    /\ config \in [optimizer : Optimizers, recompute : BOOLEAN]
    /\ graph = program.graph
    /\ todo = <<>>
    /\ requires_grad_map = <<>>
    /\ fwd_to_out_gradient_map = <<>>
    /\ gradient_out = <<>>
    /\ fwd_to_recompute = <<>>
    /\ module = <<>>

-----------------------------------------------------------------------------
\* Output edges of a node need a gradient if any of its input edges needs it.
Propagated(g) ==
    LET needs[n \in DOMAIN g.node] ==
            IF g.node[n].type = "Input" THEN g.node[n].grad
            ELSE \E i \in DOMAIN g.operands[n] : needs[g.operands[n][i]]
    IN  needs

propagate_requires_grad ==
    /\ stage = "propagate_requires_grad"
    /\ requires_grad_map' = Propagated(graph)
    /\ todo' = nodes_by_type(graph, "Output")
    /\ stage' = "create_gradient_inputs"
    /\ UNCHANGED <<program, config, graph, fwd_to_out_gradient_map, gradient_out, fwd_to_recompute, module>>

\* The nodes whose gradients are computed, users before their operands.
BackwardOrder(g) == Reverse(Only(topological_sort(g), {n \in DOMAIN g.node : is_forward(g, n)}))

\* Register fwd->out_gradient
add_fwd_to_out_gradient(grads, fwd, bwd) ==
    IF fwd \in DOMAIN grads THEN [grads EXCEPT ![fwd] = Append(@, bwd)] ELSE Extend(grads, fwd, <<bwd>>)

\* The gradient of an output comes in as an input, that of a loss is one.
create_gradient_input ==
    /\ stage = "create_gradient_inputs" /\ todo # <<>>
    /\ LET output == Head(todo)
           op == graph.operands[output][1]
           input == Fresh(graph)
           loss == graph.node[output].loss
           more == add_node(graph, input, Node("Input", IF loss THEN "Constant" ELSE "Gradient", "Backward"), <<>>)
       IN  IF requires_grad_map[op]
           THEN /\ graph' = IF loss THEN more ELSE [more EXCEPT !.inputs = Append(@, input)]
                /\ fwd_to_out_gradient_map' = add_fwd_to_out_gradient(fwd_to_out_gradient_map, op, input)
           ELSE UNCHANGED <<graph, fwd_to_out_gradient_map>>
    /\ todo' = Tail(todo)
    /\ UNCHANGED <<stage, program, config, requires_grad_map, gradient_out, fwd_to_recompute, module>>

gradient_inputs_created ==
    /\ stage = "create_gradient_inputs" /\ todo = <<>>
    /\ todo' = BackwardOrder(graph)
    /\ stage' = "create_backward_graph"
    /\ UNCHANGED <<program, config, graph, requires_grad_map, fwd_to_out_gradient_map, gradient_out,
                   fwd_to_recompute, module>>

-----------------------------------------------------------------------------
\* Combine incoming gradients by adding them: the graph and the combined node.
combine_incoming_gradients(n) ==
    LET grads == fwd_to_out_gradient_map[n]
        add(acc, grad) ==
            <<add_node(acc[1], Fresh(acc[1]), Node("PyOp", "add", "Backward"), <<acc[2], grad>>),
              Fresh(acc[1])>>
    IN  FoldLeft(add, <<graph, grads[1]>>, Tail(grads))

\* The op that an op's backward creates for one of its operands.
backward(g, n, operand, gradient) ==
    CASE g.node[n].kind = "multiply" -> [kind |-> "multiply", operands |-> <<gradient, g.operands[n][3 - operand]>>]
      [] g.node[n].kind = "exp" -> [kind |-> "multiply", operands |-> <<n, gradient>>]
      [] OTHER -> [kind |-> "nop", operands |-> <<gradient>>]

NeedsGradient(n) ==
    /\ n \in DOMAIN fwd_to_out_gradient_map
    /\ graph.node[n].type = "Input" => graph.node[n].grad

SkipNode ==
    /\ stage = "create_backward_graph" /\ todo # <<>>
    /\ graph.node[Head(todo)].type = "Output" \/ ~NeedsGradient(Head(todo))
    /\ todo' = Tail(todo)
    /\ UNCHANGED <<stage, program, config, graph, requires_grad_map, fwd_to_out_gradient_map,
                   gradient_out, fwd_to_recompute, module>>

\* The gradient of a parameter is written to a queue, which the optimizer reads.
AccumulateGradient ==
    /\ stage = "create_backward_graph" /\ todo # <<>>
    /\ LET n == Head(todo)
       IN  /\ graph.node[n].type = "Input" /\ graph.node[n].kind = "Parameter"
           /\ NeedsGradient(n)
           /\ LET combined == combine_incoming_gradients(n)
                  queue == Fresh(combined[1])
              IN  /\ graph' = add_node(combined[1], queue, Node("Queue", "GradAccumulator", "Backward"), <<combined[2]>>)
                  /\ fwd_to_out_gradient_map' = [fwd_to_out_gradient_map EXCEPT ![n] = <<queue>>]
                  /\ gradient_out' = Extend(gradient_out, n, GradAccumulator(queue))
    /\ todo' = Tail(todo)
    /\ UNCHANGED <<stage, program, config, requires_grad_map, fwd_to_recompute, module>>

\* The gradient of an input into the graph is an output.
OutputGradient ==
    /\ stage = "create_backward_graph" /\ todo # <<>>
    /\ LET n == Head(todo)
       IN  /\ graph.node[n].type = "Input" /\ graph.node[n].kind = "Activation"
           /\ NeedsGradient(n)
           /\ LET combined == combine_incoming_gradients(n)
                  output == Fresh(combined[1])
              IN  /\ graph' = add_node(combined[1], output, Node("Output", "none", "Backward"), <<combined[2]>>)
                  /\ fwd_to_out_gradient_map' = [fwd_to_out_gradient_map EXCEPT ![n] = <<combined[2]>>]
                  /\ gradient_out' = Extend(gradient_out, n, output)
    /\ todo' = Tail(todo)
    /\ UNCHANGED <<stage, program, config, requires_grad_map, fwd_to_recompute, module>>

\* Each operand edge that needs a gradient gets one, in port order.
Differentiate ==
    /\ stage = "create_backward_graph" /\ todo # <<>>
    /\ LET n == Head(todo)
           ports == DOMAIN graph.operands[n]
           edges == Only([i \in ports |-> i], {i \in ports : requires_grad_map[graph.operands[n][i]]})
           combined == combine_incoming_gradients(n)
           step(acc, i) ==
               LET made == backward(graph, n, i, combined[2])
               IN  <<add_node(acc[1], Fresh(acc[1]), Node("PyOp", made.kind, "Backward"), made.operands),
                     add_fwd_to_out_gradient(acc[2], graph.operands[n][i], Fresh(acc[1]))>>
           done == FoldLeft(step, <<combined[1], [fwd_to_out_gradient_map EXCEPT ![n] = <<combined[2]>>]>>, edges)
       IN  /\ graph.node[n].type = "PyOp" /\ NeedsGradient(n)
           /\ graph' = done[1]
           /\ fwd_to_out_gradient_map' = done[2]
    /\ todo' = Tail(todo)
    /\ UNCHANGED <<stage, program, config, requires_grad_map, gradient_out, fwd_to_recompute, module>>

\* The forward ops, which are recomputed in this order.
RecomputeOrder(g) ==
    Only(topological_sort(g), {n \in DOMAIN g.node : is_forward(g, n) /\ g.node[n].type = "PyOp"})

\* For each parameter an optimizer graph; the parameters come first in the order.
AfterBackward ==
    IF config.optimizer # "none" THEN "create_optimizer_graph"
    ELSE IF config.recompute THEN "create_recompute_ops" ELSE "remove_nops"

backward_graph_created ==
    /\ stage = "create_backward_graph" /\ todo = <<>>
    /\ todo' = IF config.optimizer # "none"
               THEN Only(graph.nodes, {n \in DOMAIN graph.node : graph.node[n].kind = "Parameter" /\ graph.node[n].grad})
               ELSE RecomputeOrder(graph)
    /\ stage' = AfterBackward
    /\ UNCHANGED <<program, config, graph, requires_grad_map, fwd_to_out_gradient_map, gradient_out,
                   fwd_to_recompute, module>>

OptimizerInput(g, name) == add_node(g, name, Node("Input", "OptimizerParameter", "Optimizer"), <<>>)
OptimizerOp(g, kind, ops) == add_node(g, Fresh(g), Node("PyOp", kind, "Optimizer"), ops)
Newest(g) == Last(g.nodes)

\* SGD: param - lr * gradient
SGD_op_trace(g, parameter, gradient) ==
    LET lr == Suffixed(parameter, "lr")
        times == OptimizerOp(OptimizerInput(g, lr), "multiply", <<gradient, lr>>)
        new == OptimizerOp(times, "subtract", <<parameter, Newest(times)>>)
    IN  [new EXCEPT !.loopback = @ \cup {<<Newest(new), parameter>>}]

\* Mutation: the parameter is updated by the old mean.
Adam_op_trace_old_mean(g, parameter, gradient) ==
    LET mean == Suffixed(parameter, "mean")
        lr == Suffixed(parameter, "lr")
        updated == OptimizerOp(OptimizerInput(g, mean), "add", <<mean, gradient>>)
        delta == OptimizerOp(OptimizerInput(updated, lr), "multiply", <<mean, lr>>)
        new == OptimizerOp(delta, "subtract", <<parameter, Newest(delta)>>)
    IN  [new EXCEPT !.loopback = @ \cup {<<Newest(new), parameter>>, <<Newest(updated), mean>>}]

\* Adam: the mean is updated, and the parameter by the updated mean.
Adam_op_trace(g, parameter, gradient) ==
    LET mean == Suffixed(parameter, "mean")
        lr == Suffixed(parameter, "lr")
        updated == OptimizerOp(OptimizerInput(g, mean), "add", <<mean, gradient>>)
        delta == OptimizerOp(OptimizerInput(updated, lr), "multiply", <<Newest(updated), lr>>)
        new == OptimizerOp(delta, "subtract", <<parameter, Newest(delta)>>)
    IN  [new EXCEPT !.loopback = @ \cup {<<Newest(new), parameter>>, <<Newest(updated), mean>>}]

create_optimizer_graph ==
    /\ stage = "create_optimizer_graph" /\ todo # <<>>
    /\ LET parameter == Head(todo)
           gradient == fwd_to_out_gradient_map[parameter][1]
       IN  /\ parameter \in DOMAIN fwd_to_out_gradient_map     \* TT_ASSERT(gradient_edges.size() == 1)
           /\ graph' = IF config.optimizer = "SGD" THEN SGD_op_trace(graph, parameter, gradient)
                       ELSE Adam_op_trace(graph, parameter, gradient)
    /\ todo' = Tail(todo)
    /\ UNCHANGED <<stage, program, config, requires_grad_map, fwd_to_out_gradient_map, gradient_out,
                   fwd_to_recompute, module>>

optimizer_graph_created ==
    /\ stage = "create_optimizer_graph" /\ todo = <<>>
    /\ todo' = RecomputeOrder(graph)
    /\ stage' = IF config.recompute THEN "create_recompute_ops" ELSE "remove_nops"
    /\ UNCHANGED <<program, config, graph, requires_grad_map, fwd_to_out_gradient_map, gradient_out,
                   fwd_to_recompute, module>>

-----------------------------------------------------------------------------
(***************************************************************************)
(* insert_recompute_ops: every forward op is cloned into the backward      *)
(* graph, backward ops read the clones, and clones without a user go.      *)
(***************************************************************************)
Recompute(n) == Suffixed(n, "recompute")

\* The clone reads the clones of forward ops, but the inputs themselves.
create_recompute_op ==
    /\ stage = "create_recompute_ops" /\ todo # <<>>
    /\ LET n == Head(todo)
           Analog(m) == IF graph.node[m].type = "Input" THEN m ELSE fwd_to_recompute[m]
       IN  /\ graph' = add_node(graph, Recompute(n), [graph.node[n] EXCEPT !.epoch = "Backward"],
                                [i \in DOMAIN graph.operands[n] |-> Analog(graph.operands[n][i])])
           /\ fwd_to_recompute' = Extend(fwd_to_recompute, n, Recompute(n))
    /\ todo' = Tail(todo)
    /\ UNCHANGED <<stage, program, config, requires_grad_map, fwd_to_out_gradient_map, gradient_out, module>>

\* Mutation: only the first operand of a backward op is replaced.
ReadsRecomputed_first(g, n) ==
    [i \in DOMAIN g.operands[n] |->
        IF i = 1 /\ g.operands[n][i] \in DOMAIN fwd_to_recompute
        THEN fwd_to_recompute[g.operands[n][i]] ELSE g.operands[n][i]]

\* Replace the original FWD->BWD edge with RECOMPUTE->BWD instead.
ReadsRecomputed(g, n) ==
    [i \in DOMAIN g.operands[n] |->
        IF g.operands[n][i] \in DOMAIN fwd_to_recompute
        THEN fwd_to_recompute[g.operands[n][i]] ELSE g.operands[n][i]]

add_edges_for_recompute_ops ==
    /\ stage = "create_recompute_ops" /\ todo = <<>>
    /\ graph' = [graph EXCEPT !.operands =
                    [n \in DOMAIN @ |-> IF is_backward(graph, n) /\ n \notin Range(fwd_to_recompute)
                                        THEN ReadsRecomputed(graph, n) ELSE @[n]]]
    /\ todo' = Only(graph.nodes, Range(fwd_to_recompute))
    /\ stage' = "remove_recompute_ops"
    /\ UNCHANGED <<program, config, requires_grad_map, fwd_to_out_gradient_map, gradient_out,
                   fwd_to_recompute, module>>

\* A clone without a user is removed, and its operands are looked at again.
remove_recompute_op ==
    /\ stage = "remove_recompute_ops" /\ todo # <<>>
    /\ LET n == Head(todo)
           unused == n \in DOMAIN graph.node /\ data_users(graph, n) = <<>>
       IN  /\ graph' = IF unused THEN remove_node(graph, n) ELSE graph
           /\ todo' = Tail(todo) \o IF unused THEN graph.operands[n] ELSE <<>>
    /\ UNCHANGED <<stage, program, config, requires_grad_map, fwd_to_out_gradient_map, gradient_out,
                   fwd_to_recompute, module>>

recompute_ops_removed ==
    /\ stage = "remove_recompute_ops" /\ todo = <<>>
    /\ stage' = "remove_nops"
    /\ UNCHANGED <<program, config, graph, todo, requires_grad_map, fwd_to_out_gradient_map, gradient_out,
                   fwd_to_recompute, module>>

-----------------------------------------------------------------------------
\* bypass_node: the users of a nop read its operand.
bypass_node(g, n) ==
    LET without == remove_node(g, n)
        Past(m) == IF m = n THEN g.operands[n][1] ELSE m
    IN  [without EXCEPT !.operands =
            [m \in DOMAIN @ |-> [i \in DOMAIN @[m] |-> Past(@[m][i])]]]

remove_nops ==
    /\ stage = "remove_nops"
    /\ graph' = FoldLeft(LAMBDA g, n : bypass_node(g, n), graph,
                         Only(topological_sort(graph), {n \in DOMAIN graph.node : graph.node[n].kind = "nop"}))
    /\ todo' = <<>>
    /\ stage' = "split_graph"
    /\ UNCHANGED <<program, config, requires_grad_map, fwd_to_out_gradient_map, gradient_out,
                   fwd_to_recompute, module>>

split_graph ==
    /\ stage = "split_graph"
    /\ LET fwd == extract_forward_graph(graph)
       IN  module' = [Forward |-> fwd,
                      Backward |-> extract_backward_graph(graph, fwd),
                      Optimizer |-> IF \E n \in DOMAIN graph.node : is_optimizer(graph, n)
                                    THEN extract_optimizer_graph(graph) ELSE EmptyGraph]
    /\ stage' = "done"
    /\ UNCHANGED <<program, config, graph, todo, requires_grad_map, fwd_to_out_gradient_map, gradient_out,
                   fwd_to_recompute>>

\* Nothing is left to do; a failed assertion ends the compilation before.
compiled == stage = "done" /\ UNCHANGED vars

Next ==
    \/ propagate_requires_grad \/ create_gradient_input \/ gradient_inputs_created
    \/ SkipNode \/ AccumulateGradient \/ OutputGradient \/ Differentiate \/ backward_graph_created
    \/ create_optimizer_graph \/ optimizer_graph_created
    \/ create_recompute_op \/ add_edges_for_recompute_ops \/ remove_recompute_op \/ recompute_ops_removed
    \/ remove_nops \/ split_graph \/ compiled

\* The compiler is one thread: it takes its next step.
Spec == Init /\ [][Next]_vars /\ WF_vars(Next)

=============================================================================
