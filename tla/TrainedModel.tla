----------------------------- MODULE TrainedModel -----------------------------
(***************************************************************************)
(* The three programs of a model compiled for training, run the way        *)
(* compiled_graph_state.py runs them, against the chain rule.              *)
(*                                                                         *)
(* Every tensor is one number; primes keep different ones apart.  The run  *)
(* is a function of the split graphs: CompiledModel models what can happen *)
(* between its calls.                                                      *)
(***************************************************************************)
EXTENDS Autograd

Primes == <<2, 3, 5, 7, 11, 13>>

\* The tensors a model is run on: its inputs by number, the gradients of its
\* outputs, the state of the optimizer.
Given(i) == Primes[i]
Seed(o) == IF program.loss THEN 1 ELSE Primes[o + 2]
OptimizerState(n) == IF Last(n[2]) = "lr" THEN 10 ELSE 100 * n[1]

-----------------------------------------------------------------------------
\* The reference: adjoint of node n of the program, over all paths to outputs.
Size == Len(program.inputs) + Len(program.ops)
ProgramValue == [i \in 1..Size |->
    Value(program.graph, [n \in {In(j) : j \in DOMAIN program.inputs} |-> Given(n[1])], In(i))]

OpAt(i) == program.ops[i - Len(program.inputs)]
Uses(i) == {u \in (Len(program.inputs) + 1..Size) \X (1..2) :
                u[2] \in DOMAIN OpAt(u[1]).operands /\ OpAt(u[1]).operands[u[2]] = i}
Partial(j, k) ==
    CASE OpAt(j).kind = "multiply" -> ProgramValue[OpAt(j).operands[3 - k]]
      [] OpAt(j).kind = "exp" -> ProgramValue[j]
      [] OTHER -> 1

Adjoint(i) ==
    LET adjoint[j \in 1..Size] ==
            MapThenSumSet(LAMBDA o : IF program.outputs[o] = j THEN Seed(o) ELSE 0, DOMAIN program.outputs)
            + MapThenSumSet(LAMBDA u : Partial(u[1], u[2]) * adjoint[u[1]], Uses(j))
    IN  adjoint[i]

-----------------------------------------------------------------------------
(***************************************************************************)
(* CompiledModel.__call__: persistent tensors are found by name, the       *)
(* others are handed over in the order of the program's inputs.            *)
(***************************************************************************)
Persistent(g) == {n \in ToSet(nodes_by_type(g, "Input")) : n \notin ToSet(g.inputs)}
PoolTensor(g, n) ==
    CASE g.node[n].kind = "Constant" -> Seed(1)     \* the gradient of a loss is 1
      [] g.node[n].kind = "OptimizerParameter" -> OptimizerState(n)
      [] OTHER -> Given(n[1])

RunProgram(g, args) ==
    LET given == [n \in Persistent(g) \cup ToSet(g.inputs) |->
                    IF n \in Persistent(g) THEN PoolTensor(g, n)
                    ELSE args[CHOOSE i \in DOMAIN g.inputs : g.inputs[i] = n]]
    IN  [i \in DOMAIN g.outputs |-> Value(g, given, g.outputs[i])]

Forward == module.Forward
Backward == module.Backward
Optimizer == module.Optimizer

forward_inputs == [i \in DOMAIN Forward.inputs |-> Given(Forward.inputs[i][1])]
all_outputs == RunProgram(Forward, forward_inputs)

\* The outputs the user gets, and those kept for backward.
Indices(s) == [i \in DOMAIN s |-> i]
model_outputs == Only(Indices(Forward.outputs),
                      {i \in DOMAIN Forward.outputs : Forward.outputs[i] \in ToSet(graph.outputs)})
intermediates == LET kept == Only(Indices(Forward.outputs),
                                  {i \in DOMAIN Forward.outputs : Forward.node[Forward.outputs[i]].intermediate})
                 IN  [i \in DOMAIN kept |-> all_outputs[kept[i]]]

\* Mutation: every forward input is handed to backward.
inputs_for_backward_all == forward_inputs

\* inputs: those whose names backward knows.
inputs_for_backward ==
    LET used == Only(Indices(Forward.inputs),
                     {i \in DOMAIN Forward.inputs : Forward.inputs[i] \in ToSet(Backward.inputs)})
    IN  [i \in DOMAIN used |-> forward_inputs[used[i]]]

\* tie_grad_fn: the hook of output idx writes slot idx.
ordered_input_gradient_names == Only(Backward.inputs, {n \in DOMAIN Backward.node : Backward.node[n].kind = "Gradient"})
gradient_inputs == [i \in DOMAIN ordered_input_gradient_names |-> Seed(i)]

bwd_inputs == gradient_inputs \o intermediates \o inputs_for_backward
gradient_outputs == RunProgram(Backward, bwd_inputs)
GradientOf(n) ==
    gradient_outputs[CHOOSE i \in DOMAIN Backward.outputs : Backward.outputs[i] = gradient_out[n]]

\* step: what backward put out goes in, updated outputs go to their aliases.
new_tensors == RunProgram(Optimizer, gradient_outputs)
UpdatedTensor(n) == new_tensors[CHOOSE i \in DOMAIN Optimizer.outputs : Optimizer.outputs[i] = Updated(n)]

-----------------------------------------------------------------------------
Done == stage = "done"
WithGradient == {In(i) : i \in {j \in DOMAIN program.inputs : program.inputs[j].grad}}
Trained == {n \in WithGradient : program.inputs[n[1]].kind = "Parameter"}

\* Backward is called with what it was split for: the gradients of outputs, the
\* outputs of forward that are intermediate and the inputs of forward it knows by
\* name, in the order of its inputs and as many (compiled_graph_state.py backward,
\* extract_backward_graph).
BackwardCallFits ==
    Done =>
        /\ Backward.inputs = ordered_input_gradient_names
                              \o Only(Forward.outputs, {n \in DOMAIN Forward.node : Forward.node[n].intermediate})
                              \o Only(Forward.inputs, ToSet(Backward.inputs))
        /\ Len(bwd_inputs) = Len(Backward.inputs)

\* What backward puts out for each parameter and input that requires it is the
\* gradient by the chain rule: one contribution of every use of every value, none
\* lost or doubled, whatever is recomputed, split and reordered on the way
\* (create_backward_graph, combine_incoming_gradients, split_graph).
GradientsCorrect == Done => \A n \in WithGradient : GradientOf(n) = Adjoint(n[1])

\* Of all that forward puts out its user gets the outputs of the model, in their
\* order, whatever is added, removed and split off on the way.
OutputsCorrect ==
    Done =>
        /\ Len(model_outputs) = Len(program.outputs)
        /\ \A i \in DOMAIN model_outputs :
            all_outputs[model_outputs[i]] = ProgramValue[program.outputs[i]]

\* With recomputation backward needs no intermediate result, and no recomputed op
\* is without a user ("This can be used to avoid the need to store all of the
\* intermediate tensors to be able to run the backward pass.").
RecomputeFreesIntermediates ==
    Done /\ config.recompute =>
        /\ intermediates = <<>>
        /\ \A n \in DOMAIN graph.node : n \in Range(fwd_to_recompute) => data_users(graph, n) # <<>>

\* A step updates every parameter by its own gradient, and with Adam the mean
\* first: the gradients that backward puts out are the inputs of the optimizer
\* program, in its order (extract_optimizer_graph, CompiledModel.step).  Of
\* models whose gradients are all of parameters: that of an activation is put out
\* too, and the optimizer program has no input for it.
StepCorrect ==
    Done /\ config.optimizer # "none" /\ Trained = WithGradient =>
        /\ Len(Optimizer.inputs) = Len(gradient_outputs)
        /\ \A n \in Trained :
            LET mean == OptimizerState(Suffixed(n, "mean")) + Adjoint(n[1])
            IN  IF config.optimizer = "SGD" THEN UpdatedTensor(n) = Given(n[1]) - 10 * Adjoint(n[1])
                ELSE /\ UpdatedTensor(Suffixed(n, "mean")) = mean
                     /\ UpdatedTensor(n) = Given(n[1]) - 10 * mean

\* Every hook of an output finds its slot ("More gradients than expected.").
GradientsExpected ==
    Done /\ ~program.loss => Len(model_outputs) <= Len(ordered_input_gradient_names)

=============================================================================
