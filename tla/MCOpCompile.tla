----------------------------- MODULE MCOpCompile -----------------------------
(***************************************************************************)
(* Every op the forge.op functions create; the others are made by passes.  *)
(***************************************************************************)
EXTENDS OpCompile

MCUserOps ==
    OpNames \ {"adaptive_max_pool2d", "conv2d_depthwise_weights", "conv2d_depthwise_weights_bw",
               "conv2d_grouped_weights", "conv2d_grouped_weights_bw", "conv2d_prestride_act",
               "conv2d_prestride_weights", "conv_sum", "depthwise", "embedding_bw",
               "ethernet_datacopy", "forge_dequantize", "forge_quantize", "gather",
               "gelu_derivative", "hslice", "hstack", "layernorm_bw", "mask", "softmax_bw",
               "tile_broadcast", "vslice", "vstack"}

Inference ==
    [training |-> FALSE, enable_recompute |-> FALSE, enable_optimization_passes |-> FALSE,
     match_subgraph_patterns |-> FALSE, enable_consteval |-> FALSE, compile_depth |-> "FULL"]
Training == [Inference EXCEPT !.training = TRUE]
MCConfigs ==
    {Inference,
     [Inference EXCEPT !.enable_optimization_passes = TRUE, !.enable_consteval = TRUE],
     [Inference EXCEPT !.match_subgraph_patterns = TRUE, !.compile_depth = "SPLIT_GRAPH"],
     Training,
     [Training EXCEPT !.enable_recompute = TRUE, !.match_subgraph_patterns = TRUE,
                      !.enable_optimization_passes = TRUE]}

=============================================================================
