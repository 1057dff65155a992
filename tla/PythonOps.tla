------------------------------ MODULE PythonOps ------------------------------
(***************************************************************************)
(* The rules of the op evaluators under forge/op/eval/forge: into which    *)
(* ops an op is decomposed in each of the three decomposition passes, and  *)
(* which ops the gradient of one of its operands is made of.  The C++ op   *)
(* namespaces that have no code of their own call these (Ops).             *)
(*                                                                         *)
(* Ops are named by their old (string) names.  What an op's attributes     *)
(* and operand shapes decide is abstracted to one bit: a "raw" op is one   *)
(* whose attributes make its decomposition apply (a channel-first conv2d,  *)
(* a reduction over a dimension of size one, an unaligned hslice), any     *)
(* other op is "plain" and its decomposition returns without a change.     *)
(***************************************************************************)
(***************************************************************************)
(* What one call of a decompose or backward function can do: nothing, make *)
(* ops (of any form their attributes allow, or plain by construction), or  *)
(* raise.  A rule is the set of outcomes a raw op can have.                *)
(***************************************************************************)
Keep == [does |-> "keep", ops |-> {}, plain |-> {}, why |-> "none"]
MakeAs(S, P) == [does |-> "make", ops |-> S, plain |-> P, why |-> "none"]
Make(S) == MakeAs(S, {})
Raise(w) == [does |-> "raise", ops |-> {}, plain |-> {}, why |-> w]

\* Two kinds of raise: what the code does not support, and what its authors
\* assert can not happen.
Unsupported == {Raise("unsupported")}
Forbidden == {Raise("forbidden")}

\* op_to_module_map names one module for an op; a module without a rule for
\* it leaves the op alone, or does what base says.
ModuleOf(modules, k) == CHOOSE m \in modules : k \in DOMAIN m
RuleFor(modules, k, base) ==
    IF \E m \in modules : k \in DOMAIN m THEN ModuleOf(modules, k)[k] ELSE base

-----------------------------------------------------------------------------
(***************************************************************************)
(* decompose: the Initial pass.                                            *)
(***************************************************************************)
eltwise_unary_decompose ==
    [sigmoid |-> {Make({"multiply", "exp", "add", "reciprocal"})},
     gelu    |-> {Make({"multiply", "add", "tanh"})}]

eltwise_nary_decompose ==
    [stack |-> {Make({"reshape", "concatenate"})}]

matmul_decompose ==
    [sparse_matmul |-> {MakeAs({"vslice"}, {"sparse_matmul"})}]

Reduces == {"reduce_avg", "reduce_sum", "reduce_max", "grouped_reduce_avg"}
reduce_decompose == [k \in Reduces |-> {Make({"nop"})}]

\* Mutation: the convolution is made anew as it was.
Conv2d_decompose_again == [conv2d |-> {Make({"transpose", "conv2d"})}]

\* A channel-first convolution is transposed around a channel-last one, a
\* bias of lower rank is unsqueezed; one of the two at least.
Conv2d_decompose ==
    [conv2d |-> {MakeAs(t, {"conv2d"}) : t \in SUBSET {"transpose", "unsqueeze"} \ {{}}}]

Conv2dTranspose_decompose ==
    [conv2d_transpose |->
        {MakeAs(t, {"conv2d_transpose"}) : t \in SUBSET {"transpose", "unsqueeze"} \ {{}}}]

nn_decompose ==
    [log_softmax |-> {Make({"softmax", "log"})},
     batchnorm   |-> {Make({"add", "sqrt", "reciprocal", "multiply", "unsqueeze"})}]

\* Without padding, then the constant, replicate and reflect modes; reflecting
\* more than the side holds raises.
Pad_decompose ==
    [pad |-> {Make({"nop"}), Make({"concatenate"}), Make({"index", "repeat", "concatenate"}),
              Make({"index", "adv_index", "concatenate"})} \cup Unsupported]

MaxPool2d_decompose == [max_pool2d |-> {MakeAs({"transpose"}, {"max_pool2d"})}]

pooling_decompose ==
    [avg_pool1d |-> {Make({"reduce_avg"})} \cup Unsupported,
     avg_pool2d |-> {Make({"reshape", "reduce_avg"}), Make({"reshape", "transpose", "reduce_avg"}),
                     Make({"conv2d"}), Make({"conv2d", "reshape", "matmul"}),
                     Make({"conv2d", "reshape", "transpose", "matmul"})} \cup Unsupported,
     avg_pool3d |-> {Make({"index", "reduce_avg", "avg_pool2d", "unsqueeze"}),
                     Make({"index", "reduce_avg", "avg_pool2d", "unsqueeze", "concatenate"})}]

quantize_decompose ==
    [quantize   |-> {Make({"reciprocal", "forge_quantize"})},
     requantize |-> {Make(t \cup {"reciprocal", "multiply", "forge_requantize"}) :
                        t \in SUBSET {"unsqueeze", "broadcast"}},
     dequantize |-> {Make(t \cup {"forge_dequantize"}) : t \in SUBSET {"unsqueeze"}}]

resize_decompose ==
    [resize2d |-> {Make({s}) : s \in {"upsample2d", "downsample2d"}}
                  \cup {Make({"transpose", s}) : s \in {"upsample2d", "downsample2d"}},
     resize3d |-> {Make({"nop"}), Make({"reshape", "transpose", "sparse_matmul"})} \cup Unsupported]

tm_decompose ==
    [adv_index     |-> {Make(t \cup {"embedding"}) : t \in SUBSET {"transpose", "reshape"}},
     broadcast     |-> {Make({"nop"})},
     pixel_shuffle |-> {Make({"reshape", "transpose"})},
     repeat        |-> {MakeAs({"reshape"}, {"repeat"})}]

\* "embedding_bw should not be decomposed"
embedding_bw_decompose == [embedding_bw |-> Forbidden]

Decompositions ==
    {eltwise_unary_decompose, eltwise_nary_decompose, matmul_decompose, reduce_decompose,
     Conv2d_decompose, Conv2dTranspose_decompose, nn_decompose, Pad_decompose,
     MaxPool2d_decompose, pooling_decompose, quantize_decompose, resize_decompose,
     tm_decompose, embedding_bw_decompose}
get_f_forge_decompose(k) == RuleFor(Decompositions, k, {Keep})

(***************************************************************************)
(* decompose_post_optimize: ops that are not aligned to tiles are padded,  *)
(* multiplied by a picker matrix and narrowed.                             *)
(***************************************************************************)
Unaligned == {"hslice", "hstack", "vslice", "vstack"}
tm_decompose_post_optimize ==
    [k \in {"select"} \cup Unaligned |->
        IF k = "select"
        THEN {Make({"nop"})} \cup
             {Make(t \cup {"pad_tile", "sparse_matmul", "narrow"}) : t \in SUBSET {"transpose"}}
        ELSE {MakeAs(t \cup {"pad_tile", "narrow"}, {k}) :
                t \in {{}, {"sparse_matmul"}, {"transpose", "sparse_matmul"},
                       {"unsqueeze", "transpose", "sparse_matmul"}}}]

get_f_forge_decompose_post_optimize(k) == RuleFor({tm_decompose_post_optimize}, k, {Keep})

(***************************************************************************)
(* decompose_post_autograd.  layernorm_bw takes apart what its forward     *)
(* layernorm has been decomposed into, unless it is the gradient of the    *)
(* bias; an op of module nn without a rule here is asserted not to come.   *)
(***************************************************************************)
eltwise_binary_decompose_post_autograd ==
    [heaviside |-> {Make({"greater", "equal", "multiply", "add"})},
     maximum   |-> {Make(t \cup {"concatenate", "reduce_max"}) : t \in SUBSET {"unsqueeze", "squeeze"}}
                   \cup {Make(t \cup {"interleave", "reduce_max"}) : t \in SUBSET {"unsqueeze", "squeeze"}}]

layernorm_bw_bias == Make({"reduce_sum"})

nn_decompose_post_autograd ==
    [layernorm    |-> {Make({"reduce_sum", "multiply", "subtract", "add", "sqrt", "reciprocal"})},
     layernorm_bw |-> {layernorm_bw_bias, Make({"multiply", "reduce_sum"}),
                       Make({"multiply", "reduce_sum", "add", "subtract"})},
     log_softmax  |-> Forbidden,
     batchnorm    |-> Forbidden]

get_f_forge_decompose_post_autograd(k) ==
    RuleFor({eltwise_binary_decompose_post_autograd, nn_decompose_post_autograd}, k, {Keep})

-----------------------------------------------------------------------------
(***************************************************************************)
(* Which attributes an op can have.  An op that is decomposed whatever its *)
(* attributes is raw, one with a condition can be either, the others are   *)
(* plain.                                                                  *)
(***************************************************************************)
Conditional ==
    {"sigmoid", "gelu", "sparse_matmul", "conv2d", "conv2d_transpose", "max_pool2d", "broadcast",
     "repeat", "select", "hslice", "hstack", "vslice", "vstack", "maximum", "concatenate",
     "reshape", "subtract"} \cup Reduces
Unconditional ==
    {"stack", "log_softmax", "batchnorm", "pad", "avg_pool1d", "avg_pool2d", "avg_pool3d",
     "quantize", "requantize", "dequantize", "resize2d", "resize3d", "adv_index",
     "pixel_shuffle", "embedding_bw", "heaviside", "layernorm", "layernorm_bw", "softmax_bw"}

Forms(k) == IF k \in Unconditional THEN {"raw"}
            ELSE IF k \in Conditional THEN {"raw", "plain"} ELSE {"plain"}

-----------------------------------------------------------------------------
(***************************************************************************)
(* backward: the ops the gradient of one operand is made of, one           *)
(* alternative for each operand or attribute value that matters.  Every op *)
(* that is not listed asserts or raises, or returns None, which base_      *)
(* backward can not cast to a node.                                        *)
(***************************************************************************)
eltwise_unary_backward ==
    [tile_broadcast |-> {Make({"nop"})},
     relu           |-> {Make({"greater_equal", "multiply"}), Make({"less", "greater_equal", "multiply"})},
     leaky_relu     |-> {Make({"heaviside", "multiply", "add"})},
     gelu           |-> {Make({"gelu_derivative", "multiply"})},
     sigmoid        |-> {Make({"subtract", "multiply"})},
     dropout        |-> {Make({"dropout"})},
     pow            |-> {Make({"reciprocal", "multiply"})}]

newstyle_unary_backward ==
    [nop        |-> {Make({"nop"})},
     tilizer    |-> {Make({"nop"})},
     buffer     |-> {Make({"buffer"})},
     clip       |-> {Make({"greater_equal", "less_equal", "multiply"})},
     cumsum     |-> {Make({"nop"})} \cup Unsupported,
     exp        |-> {Make({"multiply"})},
     reciprocal |-> {Make({"multiply"})},
     sqrt       |-> {Make({"reciprocal", "multiply"})},
     log        |-> {Make({"reciprocal", "multiply"})},
     tanh       |-> {Make({"subtract", "multiply"})}]

eltwise_binary_backward ==
    [maximum |-> {Make({"nop"})},
     power   |-> {Make({"reciprocal", "multiply"}), Make({"log", "multiply"})}]

eltwise_nary_backward ==
    [conv_sum   |-> {Make({"conv_sum"})},
     interleave |-> {Make({"hstack", "select"}), Make({"pad_tile", "hstack", "narrow", "select"})}]

matmul_backward ==
    [matmul        |-> {Make({"transpose", "matmul"})},
     sparse_matmul |-> {Make({"sparse_matmul"})} \cup Unsupported]

reduce_backward ==
    [reduce_sum |-> {Make({"nop"})},
     reduce_max |-> {Make(r \cup {"subtract", "add", "relu", "multiply"}) : r \in SUBSET {"reduce_max"}},
     reduce_avg |-> {Make({"broadcast", "multiply"})},
     grouped_reduce_avg |-> {Make({"sparse_matmul", "multiply"}),
                             Make({"transpose", "sparse_matmul", "multiply"})}]

tm_backward ==
    [conv2d_depthwise_weights |-> {Make({"conv2d_depthwise_weights_bw"})},
     conv2d_grouped_weights   |-> {Make({"conv2d_grouped_weights_bw"})},
     select            |-> {Make({"select"}), Make({"select", "concatenate"})},
     pad_tile          |-> {Make({"narrow"})},
     narrow            |-> {Make({"pad"})} \cup Unsupported,
     broadcast         |-> {Make({"reduce_sum"}), Make({"reduce_sum", "transpose"})},
     repeat_interleave |-> {Make({"reshape", "reduce_sum", "squeeze"})},
     index             |-> {Make({}), Make({"concatenate"})} \cup Unsupported]

other_backward ==
    [dram_queue |-> {Make({"buffer"})},
     embedding  |-> {Make({"embedding_bw"})},
     pad        |-> {Make({"narrow"})},
     layernorm  |-> {Make({"layernorm_bw"})}]

Gradients ==
    {eltwise_unary_backward, newstyle_unary_backward, eltwise_binary_backward,
     eltwise_nary_backward, matmul_backward, reduce_backward, tm_backward, other_backward}

get_f_forge_backward(k) == RuleFor(Gradients, k, Unsupported)

\* The ops whose shape the evaluators do not compute: adaptive_max_pool2d is
\* not in op_to_module_map, conv3d's module has no shape function.
Shapeless == {"adaptive_max_pool2d", "conv3d"}

=============================================================================
