---------------------------- MODULE TrainingGraph ----------------------------
(***************************************************************************)
(* The graph of a model that is compiled for training, as autograd and     *)
(* split_graph see it: nodes in the order they were added, their data      *)
(* operands in port order, the loopback edges of the optimizer, and the    *)
(* ordered module inputs and outputs (graph_lib/graph.cpp).                *)
(*                                                                         *)
(* A node is known by its name: a number and the suffixes it was given.    *)
(* Shapes are left out, every tensor holds one number; GraphLib models     *)
(* edges, ports and TMs in detail.                                         *)
(***************************************************************************)
EXTENDS Integers, Sequences, FiniteSets, SequencesExt, FiniteSetsExt, Functions, TLC

\* The elements of s that are in S, in their order.
Only(s, S) ==
    LET kept[i \in 0..Len(s)] ==
            IF i = 0 THEN <<>>
            ELSE IF s[i] \in S THEN Append(kept[i - 1], s[i]) ELSE kept[i - 1]
    IN  kept[Len(s)]

\* The name of the i-th node of a traced model.
In(i) == <<i, <<>>>>

EmptyGraph == [nodes |-> <<>>, node |-> <<>>, operands |-> <<>>, loopback |-> {},
               inputs |-> <<>>, outputs |-> <<>>]

\* type: the NodeType; kind: an op's type or an input's InputNodeType; grad:
\* requires_grad of an input; loss: is_loss_output; intermediate: of an output.
Node(type, kind, epoch) ==
    [type |-> type, kind |-> kind, epoch |-> epoch, grad |-> FALSE, loss |-> FALSE,
     intermediate |-> FALSE]

NodeTypes == {"Input", "PyOp", "Output", "Queue"}
Epochs == {"Forward", "Backward", "Optimizer"}
Kinds == {"add", "multiply", "subtract", "exp", "nop",
          "Parameter", "Activation", "Constant", "Gradient", "OptimizerParameter", "GradAccumulator", "none"}
NodeRecords == [type : NodeTypes, kind : Kinds, epoch : Epochs, grad : BOOLEAN, loss : BOOLEAN,
                intermediate : BOOLEAN]
Tags == {"lr", "mean", "recompute", "intermediate", "grad_accumulator", "updated"}
Names == Nat \X Seq(Tags)

Graphs(N) == [nodes : Seq(N), node : [N -> NodeRecords], operands : [N -> Seq(N)],
              loopback : SUBSET (N \X N), inputs : Seq(N), outputs : Seq(N)]

\* All names that a graph holds are names of its nodes.
WellFormed(g) == ToSet(g.nodes) \subseteq Names /\ g \in Graphs(ToSet(g.nodes))

\* There are no cycles: a node has a higher number than its operands.
Numbered(g) ==
    \A n \in DOMAIN g.node : \A i \in DOMAIN g.operands[n] : g.operands[n][i][1] < n[1]

\* The map f with an entry for x more; one it has already stays.
Extend(f, x, v) == [y \in DOMAIN f \cup {x} |-> IF y \in DOMAIN f THEN f[y] ELSE v]

add_node(g, name, rec, ops) ==
    [g EXCEPT !.nodes = Append(@, name), !.node = Extend(@, name, rec), !.operands = Extend(@, name, ops)]

remove_node(g, name) ==
    [g EXCEPT !.nodes = Only(@, DOMAIN g.node \ {name}),
              !.node = [n \in DOMAIN @ \ {name} |-> @[n]],
              !.operands = [n \in DOMAIN @ \ {name} |-> @[n]]]

\* A name no node has yet.
Fresh(g) == In(1 + Max({0} \cup {n[1] : n \in DOMAIN g.node}))

is_forward(g, n) == g.node[n].epoch = "Forward"
is_backward(g, n) == g.node[n].epoch = "Backward"
is_optimizer(g, n) == g.node[n].epoch = "Optimizer"
nodes_by_type(g, t) == Only(g.nodes, {n \in DOMAIN g.node : g.node[n].type = t})

\* The consumers of n, loopback edges included, in the order of the nodes.
data_users(g, n) ==
    Only(g.nodes, {m \in DOMAIN g.node : n \in ToSet(g.operands[m]) \/ <<n, m>> \in g.loopback})

\* Return inputs to the graph in way module/user expects: the used ones.
ordered_module_inputs(g) == Only(g.inputs, {n \in DOMAIN g.node : data_users(g, n) # <<>>})
ordered_intermediates(g) == Only(g.nodes, {n \in DOMAIN g.node : g.node[n].intermediate})

\* VisitNode: what visiting node n makes of the result so far.
VisitNode(g) ==
    LET visit[n \in DOMAIN g.node] ==
            [result \in Seq(DOMAIN g.node) |->
                IF n \in ToSet(result) THEN result
                ELSE Append(FoldLeft(LAMBDA r, m : visit[m][r], result, g.operands[n]), n)]
    IN  visit

\* Depth first from each node in turn, operands before their users.
topological_sort(g) == FoldLeft(LAMBDA r, n : VisitNode(g)[n][r], <<>>, g.nodes)

-----------------------------------------------------------------------------
(***************************************************************************)
(* What a program of the binary computes: the value of node n, given those *)
(* of the input nodes.                                                     *)
(***************************************************************************)
\* What an op computes of the values x of its operands; the derivative of exp is
\* its own value.
OpValue(kind, x) ==
    CASE kind = "add" -> FoldLeft(LAMBDA a, b : a + b, 0, x)
      [] kind = "multiply" -> FoldLeft(LAMBDA a, b : a * b, 1, x)
      [] kind = "subtract" -> x[1] - x[2]
      [] kind = "exp" -> x[1] + 1
      [] OTHER -> x[1]

Value(g, given, n) ==
    LET value[m \in DOMAIN g.node] ==
            IF g.node[m].type = "Input" THEN given[m]
            ELSE OpValue(g.node[m].kind, [i \in DOMAIN g.operands[m] |-> value[g.operands[m][i]]])
    IN  value[n]

=============================================================================
