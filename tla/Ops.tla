--------------------------------- MODULE Ops ---------------------------------
(***************************************************************************)
(* The C++ op registry: the OpType enumeration and its two string tables,  *)
(* the op namespaces of ops/op_*.cpp, and the switches of op.cpp that      *)
(* dispatch backward and the three decomposition functions to them.        *)
(***************************************************************************)
EXTENDS PythonOps

(***************************************************************************)
(* A namespace asserts the OpType its functions are called for.  Most pass *)
(* every call on to the Python evaluators; the others have their own       *)
(* backward, and their own decompositions where op.cpp's switches call     *)
(* one.                                                                    *)
(***************************************************************************)
Delegating(t) ==
    [type |-> t, native |-> FALSE, backward |-> {}, initial |-> {}, post_autograd |-> {}]
Native(t, b, i, a) ==
    [type |-> t, native |-> TRUE, backward |-> b, initial |-> i, post_autograd |-> a]

\* A gradient made of S if it has the operand's shape; else of B, and summed over
\* the dimensions the operand was broadcast in, if any.
Unbroadcast(S, B) == {Make(S), Make(B), Make(B \cup {"reduce_sum"})}

\* A reshape that only adds or drops leading dimensions of size one.
decompose_reshape == {Make({"squeeze"}), Make({"unsqueeze"})}

abs == Native("Abs", {Make({"heaviside", "subtract", "multiply"})}, {Keep}, {Keep})
adaptive_max_pool_2d == Delegating("AdaptiveMaxPool2d")
add == Native("Add", Unbroadcast({"nop"}, {}), {Keep}, {Keep})
adv_index == Delegating("AdvIndex")
argmax == Delegating("Argmax")
atan == Delegating("Atan")
avg_pool_1d == Delegating("AvgPool1d")
avg_pool_2d == Delegating("AvgPool2d")
avg_pool_3d == Delegating("AvgPool3d")
batchnorm == Delegating("Batchnorm")
broadcast == Delegating("Broadcast")
buffer == Delegating("Buffer")
cast == Delegating("Cast")
clip == Delegating("Clip")
concatenate == Native("Concatenate", {Make({"index"})}, {Make({"nop"})}, {Keep})
constant == Native("Constant", Unsupported, {Keep}, {Keep})
conv_2d == Delegating("Conv2d")
conv_2d_depthwise_weights == Delegating("Conv2dDepthwiseWeights")
conv_2d_depthwise_weights_bw == Delegating("Conv2dDepthwiseWeightsBw")
conv_2d_grouped_weights == Delegating("Conv2dGroupedWeights")
conv_2d_grouped_weights_bw == Delegating("Conv2dGroupedWeightsBw")
conv_2d_prestride_act == Delegating("Conv2dPrestrideAct")
conv_2d_prestride_weights == Delegating("Conv2dPrestrideWeights")
conv_2d_transpose == Delegating("Conv2dTranspose")
conv_3d == Delegating("Conv3d")
conv_Sum == Delegating("ConvSum")
cosine == Native("Cosine", {Make({"sine", "multiply"})}, {Keep}, {Keep})
cumulative_sum == Delegating("CumulativeSum")
depthwise == Delegating("Depthwise")
dequantize == Delegating("Dequantize")
divide == Native("Divide",
    Unbroadcast({"divide"}, {"divide"}) \cup Unbroadcast({"divide", "multiply"}, {"divide", "multiply"}),
    {Keep}, {Keep})
downsample_2d == Delegating("Downsample2d")
dram_queue == Delegating("DramQueue")
dropout == Delegating("Dropout")
embedding == Delegating("Embedding")
embedding_bw == Delegating("EmbeddingBw")
equal == Delegating("Equal")
erf == Delegating("Erf")
ethernet_data_copy == Delegating("EthernetDatacopy")
exp == Delegating("Exp")
fill_cache == Delegating("FillCache")
forge_dequantize == Delegating("ForgeDequantize")
forge_pad == Delegating("ForgePad")
forge_quantize == Delegating("ForgeQuantize")
forge_requantize == Delegating("ForgeRequantize")
forge_unpad == Delegating("ForgeUnpad")
gather == Delegating("Gather")
gelu == Delegating("Gelu")
gelu_derivative == Delegating("GeluDerivative")
greater == Delegating("Greater")
greater_equal == Delegating("GreaterEqual")
grouped_reduce_avg == Delegating("GroupedReduceAvg")
heaviside == Delegating("Heaviside")
hslice == Delegating("Hslice")
hstack == Delegating("Hstack")
index == Delegating("Index")
index_copy == Delegating("IndexCopy")
interleave == Delegating("Interleave")
layernorm == Delegating("Layernorm")
layernorm_bw == Delegating("LayernormBw")
leaky_relu == Delegating("LeakyRelu")
less == Delegating("Less")
less_equal == Delegating("LessEqual")
log == Delegating("Log")
log_softmax == Delegating("LogSoftmax")
logical_and == Delegating("LogicalAnd")
logical_not == Delegating("LogicalNot")
mask == Delegating("Mask")
matmul == Delegating("Matmul")
max_pool_1d == Delegating("MaxPool1d")
max_pool_2d == Delegating("MaxPool2d")
max_pool_3d == Delegating("MaxPool3d")
maximum == Delegating("Maximum")
minimum == Delegating("Minimum")
multiply == Native("Multiply", Unbroadcast({"multiply"}, {"multiply"}), {Keep}, {Keep})
narrow == Delegating("Narrow")
nop == Delegating("Nop")
not_equal == Delegating("NotEqual")
pad == Delegating("Pad")
pad_tile == Delegating("PadTile")
pixel_shuffle == Delegating("PixelShuffle")
pow == Delegating("Pow")
power == Delegating("Power")
quantize == Delegating("Quantize")
reciprocal == Delegating("Reciprocal")
reduce_avg == Delegating("ReduceAvg")
reduce_max == Delegating("ReduceMax")
reduce_sum == Delegating("ReduceSum")
relu == Delegating("Relu")
remainder == Delegating("Remainder")
repeat == Delegating("Repeat")
repeat_interleave == Delegating("RepeatInterleave")
requantize == Delegating("Requantize")
reshape == Native("Reshape", {Make({"reshape"})}, decompose_reshape, decompose_reshape)
resize_1d == Delegating("Resize1d")
resize_2d == Delegating("Resize2d")
resize_3d == Delegating("Resize3d")
select == Delegating("Select")
sigmoid == Delegating("Sigmoid")
sine == Native("Sine", {Make({"cosine", "multiply"})}, {Keep}, {Keep})
softmax == Native("Softmax", {Make({"softmax_bw"})}, {Keep}, {Keep})
softmax_bw == Native("SoftmaxBw",
    Unsupported,
    {Keep}, {Make({"multiply", "reduce_sum", "subtract"})})
sparse_matmul == Delegating("SparseMatmul")
sqrt == Delegating("Sqrt")
squeeze == Native("Squeeze", {Make({"unsqueeze"})}, {Keep}, {Keep})
stack == Delegating("Stack")
subtract == Native("Subtract",
    Unbroadcast({"nop"}, {"nop"}) \cup Unbroadcast({"multiply"}, {"multiply"}),
    {Keep}, {MakeAs({"reshape"}, {"subtract"})})
tanh == Delegating("Tanh")
tile_broadcast == Delegating("TileBroadcast")
tilizer == Delegating("Tilizer")
transpose == Native("Transpose", {Make({"transpose"})}, {Keep}, {Keep})
unsqueeze == Native("Unsqueeze", {Make({"squeeze"})}, {Keep}, {Keep})
update_cache == Delegating("UpdateCache")
upsample_2d == Delegating("Upsample2d")
vslice == Delegating("Vslice")
vstack == Delegating("Vstack")
where == Delegating("Where")

-----------------------------------------------------------------------------
\* The old (string) name of each OpType, and back.
NewToOldOpType ==
    [Abs |-> "abs", AdaptiveMaxPool2d |-> "adaptive_max_pool2d", Add |-> "add",
     AdvIndex |-> "adv_index", Argmax |-> "argmax", Atan |-> "atan",
     AvgPool1d |-> "avg_pool1d", AvgPool2d |-> "avg_pool2d", AvgPool3d |-> "avg_pool3d",
     Batchnorm |-> "batchnorm", Broadcast |-> "broadcast", Buffer |-> "buffer",
     Cast |-> "cast", Clip |-> "clip", Concatenate |-> "concatenate",
     Constant |-> "constant", Conv2d |-> "conv2d",
     Conv2dDepthwiseWeights |-> "conv2d_depthwise_weights",
     Conv2dDepthwiseWeightsBw |-> "conv2d_depthwise_weights_bw",
     Conv2dGroupedWeights |-> "conv2d_grouped_weights",
     Conv2dGroupedWeightsBw |-> "conv2d_grouped_weights_bw",
     Conv2dPrestrideAct |-> "conv2d_prestride_act",
     Conv2dPrestrideWeights |-> "conv2d_prestride_weights",
     Conv2dTranspose |-> "conv2d_transpose", Conv3d |-> "conv3d", ConvSum |-> "conv_sum",
     Cosine |-> "cosine", CumulativeSum |-> "cumsum", Depthwise |-> "depthwise",
     Dequantize |-> "dequantize", Divide |-> "divide", Downsample2d |-> "downsample2d",
     DramQueue |-> "dram_queue", Dropout |-> "dropout", Embedding |-> "embedding",
     EmbeddingBw |-> "embedding_bw", Equal |-> "equal", Erf |-> "erf",
     EthernetDatacopy |-> "ethernet_datacopy", Exp |-> "exp", FillCache |-> "fill_cache",
     ForgeDequantize |-> "forge_dequantize", ForgePad |-> "forge_pad",
     ForgeQuantize |-> "forge_quantize", ForgeRequantize |-> "forge_requantize",
     ForgeUnpad |-> "forge_unpad", Gather |-> "gather", Gelu |-> "gelu",
     GeluDerivative |-> "gelu_derivative", Greater |-> "greater",
     GreaterEqual |-> "greater_equal", GroupedReduceAvg |-> "grouped_reduce_avg",
     Heaviside |-> "heaviside", Hslice |-> "hslice", Hstack |-> "hstack", Index |-> "index",
     IndexCopy |-> "index_copy", Interleave |-> "interleave", Layernorm |-> "layernorm",
     LayernormBw |-> "layernorm_bw", LeakyRelu |-> "leaky_relu", Less |-> "less",
     LessEqual |-> "less_equal", Log |-> "log", LogSoftmax |-> "log_softmax",
     LogicalAnd |-> "logical_and", LogicalNot |-> "logical_not", Mask |-> "mask",
     Matmul |-> "matmul", MaxPool1d |-> "max_pool1d", MaxPool2d |-> "max_pool2d",
     MaxPool3d |-> "max_pool3d", Maximum |-> "maximum", Minimum |-> "minimum",
     Multiply |-> "multiply", Narrow |-> "narrow", Nop |-> "nop", NotEqual |-> "not_equal",
     Pad |-> "pad", PadTile |-> "pad_tile", PixelShuffle |-> "pixel_shuffle", Pow |-> "pow",
     Power |-> "power", Quantize |-> "quantize", Reciprocal |-> "reciprocal",
     ReduceAvg |-> "reduce_avg", ReduceMax |-> "reduce_max", ReduceSum |-> "reduce_sum",
     Relu |-> "relu", Remainder |-> "remainder", Repeat |-> "repeat",
     RepeatInterleave |-> "repeat_interleave", Requantize |-> "requantize",
     Reshape |-> "reshape", Resize1d |-> "resize1d", Resize2d |-> "resize2d",
     Resize3d |-> "resize3d", Select |-> "select", Sigmoid |-> "sigmoid", Sine |-> "sine",
     Softmax |-> "softmax", SoftmaxBw |-> "softmax_bw", SparseMatmul |-> "sparse_matmul",
     Sqrt |-> "sqrt", Squeeze |-> "squeeze", Stack |-> "stack", Subtract |-> "subtract",
     Tanh |-> "tanh", TileBroadcast |-> "tile_broadcast", Tilizer |-> "tilizer",
     Transpose |-> "transpose", Unsqueeze |-> "unsqueeze", UpdateCache |-> "update_cache",
     Upsample2d |-> "upsample2d", Vslice |-> "vslice", Vstack |-> "vstack",
     Where |-> "where"]

OpType == DOMAIN NewToOldOpType
OpNames == {NewToOldOpType[t] : t \in OpType}
OldToNewOpType == [k \in OpNames |-> CHOOSE t \in OpType : NewToOldOpType[t] = k]

\* The switch on type_ that each dispatching function of op.cpp repeats.
Switch ==
    [Abs |-> abs, AdaptiveMaxPool2d |-> adaptive_max_pool_2d, Add |-> add,
     AdvIndex |-> adv_index, Argmax |-> argmax, Atan |-> atan, AvgPool1d |-> avg_pool_1d,
     AvgPool2d |-> avg_pool_2d, AvgPool3d |-> avg_pool_3d, Batchnorm |-> batchnorm,
     Broadcast |-> broadcast, Buffer |-> buffer, Cast |-> cast, Clip |-> clip,
     Concatenate |-> concatenate, Constant |-> constant, Conv2d |-> conv_2d,
     Conv2dDepthwiseWeights |-> conv_2d_depthwise_weights,
     Conv2dDepthwiseWeightsBw |-> conv_2d_depthwise_weights_bw,
     Conv2dGroupedWeights |-> conv_2d_grouped_weights,
     Conv2dGroupedWeightsBw |-> conv_2d_grouped_weights_bw,
     Conv2dPrestrideAct |-> conv_2d_prestride_act,
     Conv2dPrestrideWeights |-> conv_2d_prestride_weights,
     Conv2dTranspose |-> conv_2d_transpose, Conv3d |-> conv_3d, ConvSum |-> conv_Sum,
     Cosine |-> cosine, CumulativeSum |-> cumulative_sum, Depthwise |-> depthwise,
     Dequantize |-> dequantize, Divide |-> divide, Downsample2d |-> downsample_2d,
     DramQueue |-> dram_queue, Dropout |-> dropout, Embedding |-> embedding,
     EmbeddingBw |-> embedding_bw, Equal |-> equal, Erf |-> erf,
     EthernetDatacopy |-> ethernet_data_copy, Exp |-> exp, FillCache |-> fill_cache,
     ForgeDequantize |-> forge_dequantize, ForgePad |-> forge_pad,
     ForgeQuantize |-> forge_quantize, ForgeRequantize |-> forge_requantize,
     ForgeUnpad |-> forge_unpad, Gather |-> gather, Gelu |-> gelu,
     GeluDerivative |-> gelu_derivative, Greater |-> greater,
     GreaterEqual |-> greater_equal, GroupedReduceAvg |-> grouped_reduce_avg,
     Heaviside |-> heaviside, Hslice |-> hslice, Hstack |-> hstack, Index |-> index,
     IndexCopy |-> index_copy, Interleave |-> interleave, Layernorm |-> layernorm,
     LayernormBw |-> layernorm_bw, LeakyRelu |-> leaky_relu, Less |-> less,
     LessEqual |-> less_equal, Log |-> log, LogSoftmax |-> log_softmax,
     LogicalAnd |-> logical_and, LogicalNot |-> logical_not, Mask |-> mask,
     Matmul |-> matmul, MaxPool1d |-> max_pool_1d, MaxPool2d |-> max_pool_2d,
     MaxPool3d |-> max_pool_3d, Maximum |-> maximum, Minimum |-> minimum,
     Multiply |-> multiply, Narrow |-> narrow, Nop |-> nop, NotEqual |-> not_equal,
     Pad |-> pad, PadTile |-> pad_tile, PixelShuffle |-> pixel_shuffle, Pow |-> pow,
     Power |-> power, Quantize |-> quantize, Reciprocal |-> reciprocal,
     ReduceAvg |-> reduce_avg, ReduceMax |-> reduce_max, ReduceSum |-> reduce_sum,
     Relu |-> relu, Remainder |-> remainder, Repeat |-> repeat,
     RepeatInterleave |-> repeat_interleave, Requantize |-> requantize, Reshape |-> reshape,
     Resize1d |-> resize_1d, Resize2d |-> resize_2d, Resize3d |-> resize_3d,
     Select |-> select, Sigmoid |-> sigmoid, Sine |-> sine, Softmax |-> softmax,
     SoftmaxBw |-> softmax_bw, SparseMatmul |-> sparse_matmul, Sqrt |-> sqrt,
     Squeeze |-> squeeze, Stack |-> stack, Subtract |-> subtract, Tanh |-> tanh,
     TileBroadcast |-> tile_broadcast, Tilizer |-> tilizer, Transpose |-> transpose,
     Unsqueeze |-> unsqueeze, UpdateCache |-> update_cache, Upsample2d |-> upsample_2d,
     Vslice |-> vslice, Vstack |-> vstack, Where |-> where]

-----------------------------------------------------------------------------
(***************************************************************************)
(* Dispatch.  A namespace reached for another type fails its assertion.    *)
(***************************************************************************)
WrongType == {Raise("Wrong op type.")}

Dispatch(k, own, base) ==
    LET ns == Switch[OldToNewOpType[k]]
    IN  IF ns.type # OldToNewOpType[k] THEN WrongType
        ELSE IF ns.native THEN own[OldToNewOpType[k]] ELSE base

Op_shape(k) ==
    Dispatch(k, [t \in OpType |-> {Keep}], IF k \in Shapeless THEN Unsupported ELSE {Keep})
Op_backward(k) ==
    Dispatch(k, [t \in OpType |-> Switch[t].backward], get_f_forge_backward(k))
Op_decompose_initial(k) ==
    Dispatch(k, [t \in OpType |-> Switch[t].initial], get_f_forge_decompose(k))
Op_decompose_post_optimize(k) ==
    Dispatch(k, [t \in OpType |-> {Keep}], get_f_forge_decompose_post_optimize(k))
Op_decompose_post_autograd(k) ==
    Dispatch(k, [t \in OpType |-> Switch[t].post_autograd],
             get_f_forge_decompose_post_autograd(k))

=============================================================================
