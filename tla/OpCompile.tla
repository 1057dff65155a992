------------------------------ MODULE OpCompile ------------------------------
(***************************************************************************)
(* The way of one op through the compile pipeline: the stages of           *)
(* compile.py, the decomposition passes that rewrite the op until no rule  *)
(* applies, the gradients autograd adds, and the lowering to MLIR that     *)
(* takes only the ops it has a handler for.                                *)
(*                                                                         *)
(* A graph is abstracted to the set of its op nodes: old op name, form     *)
(* (PythonOps) and epoch.  A decomposition reads nothing of another node,  *)
(* but for layernorm_bw, which takes apart the decomposed layernorm.       *)
(***************************************************************************)
EXTENDS Ops, Naturals

CONSTANTS
    UserOps,    \* the op names forge.op functions create
    Configs     \* the values of what of CompilerConfig decides the way

ASSUME UserOpsAssumption == UserOps \subseteq OpNames
\* No forge.op function creates an op that only the gradient of another makes.
ASSUME UserGradientsAssumption == UserOps \cap {"embedding_bw", "layernorm_bw"} = {}

VARIABLES
    stage,      \* context.stage, "STOPPED" after an early stop, "FAILED" after a raise
    config,     \* the configuration of this compilation
    graph,      \* the op nodes of context.graph
    pending,    \* the nodes the running sweep has not visited yet
    removed,    \* nodes_removed > 0
    failure     \* what was raised

vars == <<stage, config, graph, pending, removed, failure>>

Stages ==
    {"INIT_COMPILE", "GENERATE_INITIAL_GRAPH", "POST_INITIAL_GRAPH_PASS", "POST_PATTERN_MATCHER",
     "OPTIMIZED_GRAPH", "AUTOGRAD", "POST_AUTOGRAD_PASS", "CONSTEVAL_GRAPH", "PRE_LOWERING_PASS",
     "SPLIT_GRAPH", "RUN_MLIR_COMPILER", "FINISH_COMPILE", "FULL"}
Terminal == {"FULL", "STOPPED", "FAILED"}

ConfigSpace ==
    [training : BOOLEAN, enable_recompute : BOOLEAN, enable_optimization_passes : BOOLEAN,
     match_subgraph_patterns : BOOLEAN, enable_consteval : BOOLEAN,
     compile_depth : Stages]
ASSUME ConfigsAssumption == Configs \subseteq ConfigSpace

\* Forward nodes come first in every topological order; recomputed ones are
\* cloned from them into the backward epoch, ahead of the gradients.
Epochs == {"Forward", "Recompute", "Backward"}
Rank(e) == CASE e = "Forward" -> 1 [] e = "Recompute" -> 2 [] OTHER -> 3

Nodes == [op : OpNames, form : {"raw", "plain"}, epoch : Epochs]

-----------------------------------------------------------------------------
\* The decomposition passes, and the rules each of them calls.
DecomposeStages == {"POST_INITIAL_GRAPH_PASS", "OPTIMIZED_GRAPH", "POST_AUTOGRAD_PASS"}
PassRule(s, k) ==
    CASE s = "POST_INITIAL_GRAPH_PASS" -> Op_decompose_initial(k)
      [] s = "OPTIMIZED_GRAPH" -> Op_decompose_post_optimize(k)
      [] s = "POST_AUTOGRAD_PASS" -> Op_decompose_post_autograd(k)

\* The form of a new node counts while a pass with a rule for its op is to come.
PassesLeft == CASE stage = "POST_INITIAL_GRAPH_PASS" -> DecomposeStages
                [] stage = "OPTIMIZED_GRAPH" -> DecomposeStages \ {"POST_INITIAL_GRAPH_PASS"}
                [] OTHER -> {"POST_AUTOGRAD_PASS"}
FormsNow(k) == IF \E s \in PassesLeft : PassRule(s, k) # {Keep} THEN Forms(k) ELSE {"plain"}

\* The nodes a made outcome adds, in the epoch of the node it is made for.
Created(o, e) ==
    {{[op |-> k, form |-> f[k], epoch |-> e] : k \in o.ops}
        \cup {[op |-> k, form |-> "plain", epoch |-> e] : k \in o.plain} :
     f \in {g \in [o.ops -> {"raw", "plain"}] : \A k \in o.ops : g[k] \in FormsNow(k)}}

Fail(why) ==
    /\ stage' = "FAILED"
    /\ failure' = why
    /\ UNCHANGED <<config, graph, pending, removed>>

\* A stage has returned next: compile_depth may end the compilation here.  A
\* loop of the stage that follows starts with nodes_removed set.
Return(next) ==
    /\ stage' = IF stage = config.compile_depth THEN "STOPPED" ELSE next
    /\ pending' = {}
    /\ removed' = TRUE
    /\ UNCHANGED <<config, failure>>

\* Mutation: gradients are visited first.
Next_node_last == CHOOSE n \in pending : \A m \in pending : Rank(n.epoch) >= Rank(m.epoch)

\* The node the sweep visits next: topological order keeps the epochs apart.
Next_node == CHOOSE n \in pending : \A m \in pending : Rank(n.epoch) <= Rank(m.epoch)

-----------------------------------------------------------------------------
(***************************************************************************)
(* decompose_tt_forge_graph: sweep over the nodes there are; a node whose  *)
(* rule made ops is removed; new nodes wait for the next sweep; stop after *)
(* a sweep that removed none.                                              *)
(***************************************************************************)
Rule(s, n) == IF n.form = "plain" THEN {Keep} ELSE PassRule(s, n.op)

\* dc.get_operands(output) finds the two operands it unpacks only once the
\* forward (or recomputed) layernorm is decomposed; the bias needs neither.
OperandsFound(n, o) ==
    (n.op = "layernorm_bw" /\ o # layernorm_bw_bias) => \A m \in graph : m.op # "layernorm"

StartSweep ==
    /\ stage \in DecomposeStages
    /\ pending = {} /\ removed
    /\ pending' = graph
    /\ removed' = FALSE
    /\ UNCHANGED <<stage, config, graph, failure>>

Decompose ==
    /\ stage \in DecomposeStages
    /\ pending # {}
    /\ \E o \in Rule(stage, Next_node) :
        \/ /\ o.does = "keep"
           /\ pending' = pending \ {Next_node}
           /\ UNCHANGED <<stage, config, graph, removed, failure>>
        \/ /\ o.does = "make" /\ OperandsFound(Next_node, o)
           /\ \E new \in Created(o, Next_node.epoch) : graph' = (graph \ {Next_node}) \cup new
           /\ pending' = pending \ {Next_node}
           /\ removed' = TRUE
           /\ UNCHANGED <<stage, config, failure>>
        \/ /\ o.does = "make" => ~OperandsFound(Next_node, o)
           /\ o.does # "keep"
           /\ Fail(IF o.does = "raise" THEN o.why ELSE "no operands")

\* Mutation: one sweep has to do.
PassDone_one_sweep == pending = {}

PassDone == pending = {} /\ ~removed

-----------------------------------------------------------------------------
(***************************************************************************)
(* The stages.                                                             *)
(***************************************************************************)
InitCompile ==
    /\ stage = "INIT_COMPILE"
    /\ Return("GENERATE_INITIAL_GRAPH")
    /\ UNCHANGED graph

\* Creating an op asks for its shape.
GenerateInitialGraph ==
    /\ stage = "GENERATE_INITIAL_GRAPH"
    /\ \E o \in UNION {Op_shape(n.op) : n \in graph} :
        \/ o.does = "raise" /\ Fail(o.why)
        \/ o.does = "keep" /\ Return("POST_INITIAL_GRAPH_PASS") /\ UNCHANGED graph

AfterOptimization == IF config.training THEN "AUTOGRAD" ELSE "POST_AUTOGRAD_PASS"

run_post_initial_graph_passes ==
    /\ stage = "POST_INITIAL_GRAPH_PASS"
    /\ PassDone
    /\ Return(IF config.match_subgraph_patterns THEN "POST_PATTERN_MATCHER"
              ELSE IF config.enable_optimization_passes THEN "OPTIMIZED_GRAPH"
              ELSE AfterOptimization)
    /\ UNCHANGED graph

PatternMatcher ==
    /\ stage = "POST_PATTERN_MATCHER"
    /\ Return(IF config.enable_optimization_passes THEN "OPTIMIZED_GRAPH" ELSE AfterOptimization)
    /\ UNCHANGED graph

run_post_optimize_decompose_graph_passes ==
    /\ stage = "OPTIMIZED_GRAPH"
    /\ PassDone
    /\ Return(AfterOptimization)
    /\ UNCHANGED graph

-----------------------------------------------------------------------------
(***************************************************************************)
(* Autograd: each forward node that needs a gradient gets, for each of its *)
(* operands, what its backward makes.                                      *)
(***************************************************************************)
StartAutograd ==
    /\ stage = "AUTOGRAD"
    /\ pending = {} /\ removed
    /\ pending' = graph
    /\ removed' = FALSE
    /\ UNCHANGED <<stage, config, graph, failure>>

Backward ==
    /\ stage = "AUTOGRAD"
    /\ pending # {}
    /\ \E parts \in SUBSET Op_backward(Next_node.op) :
        \/ /\ \A o \in parts : o.does = "make"
           /\ \E new \in Created([ops |-> UNION {o.ops : o \in parts},
                                  plain |-> UNION {o.plain : o \in parts}], "Backward") :
                graph' = graph \cup new
           /\ pending' = pending \ {Next_node}
           /\ UNCHANGED <<stage, config, removed, failure>>
        \/ \E o \in parts : o.does = "raise" /\ Fail(o.why)

\* insert_recompute_ops: forward nodes are cloned, and the clones that no gradient
\* reads removed again.  That clones are left or none is all that later steps see.
EndAutograd ==
    /\ stage = "AUTOGRAD"
    /\ PassDone
    /\ \E again \in {{}} \cup IF config.enable_recompute
                            THEN {{n \in graph : n.epoch = "Forward"}} ELSE {} :
        graph' = graph \cup {[n EXCEPT !.epoch = "Recompute"] : n \in again}
    /\ Return("POST_AUTOGRAD_PASS")

run_post_autograd_graph_passes ==
    /\ stage = "POST_AUTOGRAD_PASS"
    /\ PassDone
    /\ Return(IF config.enable_consteval THEN "CONSTEVAL_GRAPH" ELSE "PRE_LOWERING_PASS")
    /\ UNCHANGED graph

-----------------------------------------------------------------------------
\* Constant subgraphs move into their inputs: any of the nodes may.
ConstevalGraph ==
    /\ stage = "CONSTEVAL_GRAPH"
    /\ \E folded \in {{}, graph} : graph' = graph \ folded
    /\ Return("PRE_LOWERING_PASS")

\* Broadcasts become TMs on edges, nops are removed.
run_pre_lowering_passes ==
    /\ stage = "PRE_LOWERING_PASS"
    /\ graph' = {n \in graph : n.op \notin {"broadcast", "nop"}}
    /\ Return("SPLIT_GRAPH")

SplitGraph ==
    /\ stage = "SPLIT_GRAPH"
    /\ Return("RUN_MLIR_COMPILER")
    /\ UNCHANGED graph

lowering_handler_map ==
    [abs |-> "AbsOp", add |-> "AddOp", argmax |-> "ArgMaxOp", cast |-> "TypecastOp",
     clip |-> "ClampScalarOp", concatenate |-> "ConcatOp", conv2d |-> "Conv2dOp",
     cosine |-> "CosOp", cumsum |-> "CumSumOp", embedding_bw |-> "EmbeddingBackwardOp",
     embedding |-> "EmbeddingOp", equal |-> "EqualOp", exp |-> "ExpOp", gelu |-> "GeluOp",
     greater_equal |-> "GreaterEqualOp", greater |-> "GreaterThanOp", index |-> "IndexOp",
     leaky_relu |-> "LeakyReluOp", less |-> "LessEqualOp", log |-> "LogOp",
     logical_not |-> "LogicalNotOp", matmul |-> "MatmulOp", max_pool2d |-> "MaxPool2dOp",
     maximum |-> "MaximumOp", minimum |-> "MinimumOp", multiply |-> "MultiplyOp",
     not_equal |-> "NotEqualOp", reciprocal |-> "ReciprocalOp", reduce_avg |-> "MeanOp",
     reduce_max |-> "MaxOp", reduce_sum |-> "SumOp", relu |-> "ReluOp",
     remainder |-> "RemainderOp", repeat_interleave |-> "RepeatInterleaveOp",
     repeat |-> "RepeatOp", conv2d_transpose |-> "ConvTranspose2dOp",
     reshape |-> "ReshapeOp", select |-> "IndexSelectOp", sigmoid |-> "SigmoidOp",
     sine |-> "SinOp", softmax |-> "SoftmaxOp", sqrt |-> "SqrtOp", squeeze |-> "SqueezeOp",
     subtract |-> "SubtractOp", tanh |-> "TanhOp", transpose |-> "TransposeOp",
     unsqueeze |-> "UnsqueezeOp", upsample2d |-> "Upsample2dOp", pad |-> "PadOp",
     where |-> "WhereOp", fill_cache |-> "FillCacheOp", update_cache |-> "UpdateCacheOp",
     divide |-> "DivOp", erf |-> "ErfOp"]

\* "Unsupported operation for lowering from TTForge to TTIR"
emit_mlir ==
    /\ stage = "RUN_MLIR_COMPILER"
    /\ \/ /\ \A n \in graph : n.op \in DOMAIN lowering_handler_map
          /\ Return("FINISH_COMPILE")
          /\ UNCHANGED graph
       \/ /\ \E n \in graph : n.op \notin DOMAIN lowering_handler_map
          /\ Fail("no handler")

FinishCompile ==
    /\ stage = "FINISH_COMPILE"
    /\ Return("FULL")
    /\ UNCHANGED graph

-----------------------------------------------------------------------------
Init ==
    /\ stage = "INIT_COMPILE"
    /\ config \in Configs
    /\ graph \in {{[op |-> k, form |-> f, epoch |-> "Forward"]} : k \in UserOps, f \in {"raw", "plain"}}
    /\ \A n \in graph : n.form \in Forms(n.op)
    /\ pending = {}
    /\ removed = TRUE
    /\ failure = "none"

Next ==
    \/ InitCompile \/ GenerateInitialGraph \/ PatternMatcher
    \/ StartSweep \/ Decompose
    \/ run_post_initial_graph_passes \/ run_post_optimize_decompose_graph_passes
    \/ run_post_autograd_graph_passes
    \/ StartAutograd \/ Backward \/ EndAutograd
    \/ ConstevalGraph \/ run_pre_lowering_passes \/ SplitGraph \/ emit_mlir \/ FinishCompile

\* The compiler is one thread that nothing holds up: it takes its next step.
Spec == Init /\ [][Next]_vars /\ WF_vars(Next)

\* What the comparison ops compute: torch's, and those of the TTIR ops.
eltwise_binary_eval(k, x, y) ==
    CASE k = "greater" -> x > y [] k = "greater_equal" -> x >= y
      [] k = "less" -> x < y [] k = "less_equal" -> x <= y
      [] k = "equal" -> x = y [] k = "not_equal" -> x # y
ttir_eval(t, x, y) ==
    CASE t = "GreaterThanOp" -> x > y [] t = "GreaterEqualOp" -> x >= y
      [] t = "LessThanOp" -> x < y [] t = "LessEqualOp" -> x <= y
      [] t = "EqualOp" -> x = y [] t = "NotEqualOp" -> x # y
Comparisons == {"greater", "greater_equal", "less", "less_equal", "equal", "not_equal"}

-----------------------------------------------------------------------------
\* No op reaches a function that its authors assert it never reaches: an
\* embedding_bw is not decomposed, no log_softmax or batchnorm is left when the
\* post-autograd rules of module nn run, no namespace is called for another type
\* (the "assert False" of embedding_bw.py and nn.py, TT_DBG_ASSERT in ops/*.cpp);
\* and layernorm_bw is decomposed after the layernorm whose intermediate results
\* it takes apart, with recomputation as without (nn.py decompose_post_autograd).
AssertionsHold == failure \notin {"forbidden", "Wrong op type.", "no operands"}

\* A decomposition pass that returns has left no node its own rules would still
\* rewrite, the ops that its rules made included (decompose_tt_forge_graph).
PassesSettle ==
    [][ /\ stage \in DecomposeStages
        /\ stage' \notin {stage, "FAILED"}
        => \A n \in graph' : Rule(stage, n) = {Keep} ]_vars

\* Every compilation comes to an end: no rule makes an op that the rules rewrite
\* for ever ("Otherwise it the compiler will infinitely decompose the same
\* Conv2d over and over").
Terminates == <>(stage \in Terminal)

\* A comparison that was lowered still compares as its evaluator does (the torch
\* functions that eltwise_binary.py names for it).
LoweredMeaning ==
    stage = "FINISH_COMPILE" =>
        \A n \in graph : n.op \in Comparisons =>
            \A x, y \in 0..1 : ttir_eval(lowering_handler_map[n.op], x, y)
                               = eltwise_binary_eval(n.op, x, y)

=============================================================================
