-------------------------- MODULE OpCompile_proofs --------------------------
(***************************************************************************)
(* Every decomposition pass leaves only nodes its own rules let be, and no *)
(* op reaches a function that asserts it never comes, for every choice of  *)
(* user ops and of compiler configurations.                                *)
(***************************************************************************)
EXTENDS OpCompile, TLAPS

-----------------------------------------------------------------------------
(* The rules, each by its place in the tables.                             *)

(* What a decomposition rule may make, and what a gradient is made of.     *)
RuleOps ==
  {"add", "adv_index", "avg_pool2d", "broadcast", "concatenate", "conv2d", "conv2d_transpose",
   "downsample2d", "embedding", "equal", "exp", "forge_dequantize", "forge_quantize",
   "forge_requantize", "greater", "hslice", "hstack", "index", "interleave", "log", "matmul",
   "max_pool2d", "multiply", "narrow", "nop", "pad_tile", "reciprocal", "reduce_avg",
   "reduce_max", "reduce_sum", "repeat", "reshape", "softmax", "sparse_matmul", "sqrt",
   "squeeze", "subtract", "tanh", "transpose", "unsqueeze", "upsample2d", "vslice", "vstack"}

GradientOps ==
  {"add", "broadcast", "buffer", "concatenate", "conv2d_depthwise_weights_bw",
   "conv2d_grouped_weights_bw", "conv_sum", "cosine", "divide", "dropout", "embedding_bw",
   "gelu_derivative", "greater_equal", "heaviside", "hstack", "index", "layernorm_bw", "less",
   "less_equal", "log", "matmul", "multiply", "narrow", "nop", "pad", "pad_tile",
   "reciprocal", "reduce_max", "reduce_sum", "relu", "reshape", "select", "sine",
   "softmax_bw", "sparse_matmul", "squeeze", "subtract", "transpose", "unsqueeze"}

(* A rule that may let its node be does nothing else; it makes ops of N    *)
(* only, and raises for a reason in W only.                                *)
Sound(R, N, W) ==
  \A o \in R :
    /\ \/ o.does = "keep" /\ R = {Keep}
       \/ o.does = "make"
       \/ o.does = "raise" /\ o.why \in W
    /\ o.ops \subseteq N /\ o.plain \subseteq N

(* The rule to let the node be.                                            *)
LEMMA KeepSound == \A N, W : Sound({Keep}, N, W)
<1> SUFFICES ASSUME NEW N, NEW W PROVE Sound({Keep}, N, W)
  OBVIOUS
<1>1. Keep.does = "keep" /\ Keep.ops = {} /\ Keep.plain = {}
  BY DEF Keep
<1> QED BY <1>1 DEF Sound

(* Rules that make ops, or raise, whatever they are.                       *)
MadeOf(o, N) == \E S \in SUBSET N, P \in SUBSET N : o = MakeAs(S, P)
RaisedFor(o, W) == \E w \in W : o = Raise(w)

LEMMA MadeIs == \A S, P, N : S \subseteq N /\ P \subseteq N => MadeOf(MakeAs(S, P), N)
BY DEF MadeOf

LEMMA MakesSound ==
  \A R, N, W : (\A o \in R : MadeOf(o, N) \/ RaisedFor(o, W))
                => Sound(R, N, W) /\ R # {Keep}
<1>1. ASSUME NEW o, NEW N, MadeOf(o, N)
      PROVE  o.does = "make" /\ o.ops \subseteq N /\ o.plain \subseteq N
  BY <1>1 DEF MadeOf, MakeAs
<1>2. ASSUME NEW o, NEW N, NEW W, RaisedFor(o, W)
      PROVE  o.does = "raise" /\ o.why \in W /\ o.ops \subseteq N /\ o.plain \subseteq N
  BY <1>2 DEF RaisedFor, Raise
<1>3. Keep.does = "keep"
  BY DEF Keep
<1> QED BY <1>1, <1>2, <1>3 DEF Sound

(* A rule is that of the module the op belongs to, or the default; with a  *)
(* rule in its module an op is not just let be.                            *)
LEMMA RuleForSound ==
  ASSUME NEW modules, NEW k, NEW base, NEW N, NEW W, Sound(base, N, W),
         \A m \in modules : k \in DOMAIN m => Sound(m[k], N, W) /\ m[k] # {Keep}
  PROVE  /\ Sound(RuleFor(modules, k, base), N, W)
         /\ (\E m \in modules : k \in DOMAIN m) => RuleFor(modules, k, base) # {Keep}
BY DEF RuleFor, ModuleOf

(* The reasons the rules of a pass may raise for.                          *)
WhyInitial(k) ==
  IF k = "embedding_bw" THEN {"unsupported", "forbidden"} ELSE {"unsupported"}
WhyPostAutograd(k) ==
  IF k \in {"log_softmax", "batchnorm"} THEN {"unsupported", "forbidden"} ELSE {"unsupported"}

(* The rules of the Initial pass.                                          *)
LEMMA DecomposeSound ==
  \A k : /\ Sound(get_f_forge_decompose(k), RuleOps, WhyInitial(k))
         /\ k \in {"log_softmax", "batchnorm"} => get_f_forge_decompose(k) # {Keep}
<1> SUFFICES ASSUME NEW k
             PROVE  /\ Sound(get_f_forge_decompose(k), RuleOps, WhyInitial(k))
                    /\ k \in {"log_softmax", "batchnorm"} => get_f_forge_decompose(k) # {Keep}
  OBVIOUS
<1> DEFINE OK(m) == k \in DOMAIN m => Sound(m[k], RuleOps, WhyInitial(k)) /\ m[k] # {Keep}
<1>1. OK(eltwise_unary_decompose)
  BY MadeIs, MakesSound DEF eltwise_unary_decompose, Make, RuleOps, WhyInitial
<1>2. OK(eltwise_nary_decompose)
  BY MadeIs, MakesSound DEF eltwise_nary_decompose, Make, RuleOps, WhyInitial
<1>3. OK(matmul_decompose)
  BY MadeIs, MakesSound DEF matmul_decompose, Make, RuleOps, WhyInitial
<1>4. OK(reduce_decompose)
  BY MadeIs, MakesSound DEF reduce_decompose, Make, RuleOps, Reduces, WhyInitial
<1>5. OK(Conv2d_decompose)
  <2>1. ASSUME NEW o \in Conv2d_decompose["conv2d"] PROVE MadeOf(o, RuleOps)
    <3>1. PICK t \in SUBSET {"transpose", "unsqueeze"} : o = MakeAs(t, {"conv2d"})
      BY DEF Conv2d_decompose
    <3>2. t \subseteq RuleOps /\ {"conv2d"} \subseteq RuleOps
      BY DEF RuleOps
    <3> QED BY <3>1, <3>2, MadeIs
  <2>2. DOMAIN Conv2d_decompose = {"conv2d"}
    BY DEF Conv2d_decompose
  <2> QED BY <2>1, <2>2, MakesSound
<1>6. OK(Conv2dTranspose_decompose)
  <2>1. ASSUME NEW o \in Conv2dTranspose_decompose["conv2d_transpose"] PROVE MadeOf(o, RuleOps)
    <3>1. PICK t \in SUBSET {"transpose", "unsqueeze"} : o = MakeAs(t, {"conv2d_transpose"})
      BY DEF Conv2dTranspose_decompose
    <3>2. t \subseteq RuleOps /\ {"conv2d_transpose"} \subseteq RuleOps
      BY DEF RuleOps
    <3> QED BY <3>1, <3>2, MadeIs
  <2>2. DOMAIN Conv2dTranspose_decompose = {"conv2d_transpose"}
    BY DEF Conv2dTranspose_decompose
  <2> QED BY <2>1, <2>2, MakesSound
<1>7. OK(nn_decompose)
  BY MadeIs, MakesSound DEF nn_decompose, Make, RuleOps, WhyInitial
<1>8. OK(Pad_decompose)
  BY MadeIs, MakesSound DEF Pad_decompose, Make, RuleOps, Unsupported, RaisedFor, WhyInitial
<1>9. OK(MaxPool2d_decompose)
  BY MadeIs, MakesSound DEF MaxPool2d_decompose, Make, RuleOps, WhyInitial
<1>10. OK(pooling_decompose)
  <2> DEFINE R == {"reshape", "transpose", "reduce_avg", "conv2d", "matmul", "index",
                   "avg_pool2d", "unsqueeze", "concatenate"}
  <2>1. R \subseteq RuleOps
    BY DEF RuleOps
  <2>2. \A S : S \subseteq R => MadeOf(Make(S), RuleOps)
    <3> HIDE DEF R
    <3> QED BY <2>1, MadeIs DEF Make
  <2>3. \A o \in Unsupported : RaisedFor(o, WhyInitial(k))
    BY DEF Unsupported, RaisedFor, WhyInitial
  <2>4. DOMAIN pooling_decompose = {"avg_pool1d", "avg_pool2d", "avg_pool3d"}
    BY DEF pooling_decompose
  <2>5. CASE k = "avg_pool1d"
    BY <2>2, <2>3, <2>5, MakesSound DEF pooling_decompose
  <2>6. CASE k = "avg_pool2d"
    BY <2>2, <2>3, <2>6, MakesSound DEF pooling_decompose
  <2>7. CASE k = "avg_pool3d"
    BY <2>2, <2>3, <2>7, MakesSound DEF pooling_decompose
  <2> QED BY <2>4, <2>5, <2>6, <2>7
<1>11. OK(quantize_decompose)
  <2>1. ASSUME k = "quantize", NEW o \in quantize_decompose[k] PROVE MadeOf(o, RuleOps)
    BY <2>1, MadeIs DEF quantize_decompose, Make, RuleOps
  <2>2. ASSUME k = "requantize", NEW o \in quantize_decompose[k] PROVE MadeOf(o, RuleOps)
    <3>1. PICK t \in SUBSET {"unsqueeze", "broadcast"} :
            o = MakeAs(t \cup {"reciprocal", "multiply", "forge_requantize"}, {})
      BY <2>2 DEF quantize_decompose, Make
    <3>2. t \cup {"reciprocal", "multiply", "forge_requantize"} \subseteq RuleOps
      BY DEF RuleOps
    <3> QED BY <3>1, <3>2, MadeIs
  <2>3. ASSUME k = "dequantize", NEW o \in quantize_decompose[k] PROVE MadeOf(o, RuleOps)
    <3>1. PICK t \in SUBSET {"unsqueeze"} : o = MakeAs(t \cup {"forge_dequantize"}, {})
      BY <2>3 DEF quantize_decompose, Make
    <3>2. t \cup {"forge_dequantize"} \subseteq RuleOps
      BY DEF RuleOps
    <3> QED BY <3>1, <3>2, MadeIs
  <2>4. DOMAIN quantize_decompose = {"quantize", "requantize", "dequantize"}
    BY DEF quantize_decompose
  <2> QED BY <2>1, <2>2, <2>3, <2>4, MakesSound
<1>12. OK(resize_decompose)
  <2>1. ASSUME k = "resize2d", NEW o \in resize_decompose[k] PROVE MadeOf(o, RuleOps)
    BY <2>1, MadeIs DEF resize_decompose, Make, RuleOps
  <2>2. ASSUME k = "resize3d", NEW o \in resize_decompose[k]
        PROVE  MadeOf(o, RuleOps) \/ RaisedFor(o, {"unsupported"})
    BY <2>2, MadeIs DEF resize_decompose, Make, RuleOps, Unsupported, RaisedFor
  <2>3. DOMAIN resize_decompose = {"resize2d", "resize3d"}
    BY DEF resize_decompose
  <2> QED BY <2>1, <2>2, <2>3, MakesSound DEF WhyInitial
<1>13. OK(tm_decompose)
  <2>1. ASSUME k = "adv_index", NEW o \in tm_decompose[k] PROVE MadeOf(o, RuleOps)
    <3>1. PICK t \in SUBSET {"transpose", "reshape"} : o = MakeAs(t \cup {"embedding"}, {})
      BY <2>1 DEF tm_decompose, Make
    <3>2. t \cup {"embedding"} \subseteq RuleOps
      BY DEF RuleOps
    <3> QED BY <3>1, <3>2, MadeIs
  <2>2. ASSUME k \in {"broadcast", "pixel_shuffle", "repeat"}, NEW o \in tm_decompose[k]
        PROVE  MadeOf(o, RuleOps)
    BY <2>2, MadeIs DEF tm_decompose, Make, RuleOps
  <2>3. DOMAIN tm_decompose = {"adv_index", "broadcast", "pixel_shuffle", "repeat"}
    BY DEF tm_decompose
  <2> QED BY <2>1, <2>2, <2>3, MakesSound
<1>14. OK(embedding_bw_decompose)
  BY MadeIs, MakesSound DEF embedding_bw_decompose, Forbidden, RaisedFor, WhyInitial
<1> HIDE DEF OK
<1>15. \A m \in Decompositions : OK(m)
  BY <1>1, <1>2, <1>3, <1>4, <1>5, <1>6, <1>7, <1>8, <1>9, <1>10, <1>11, <1>12, <1>13, <1>14 DEF Decompositions
<1>16. \A m \in Decompositions :
         k \in DOMAIN m => Sound(m[k], RuleOps, WhyInitial(k)) /\ m[k] # {Keep}
  BY <1>15 DEF OK
<1>17. k \in {"log_softmax", "batchnorm"} => \E m \in Decompositions : k \in DOMAIN m
  <2>1. DOMAIN nn_decompose = {"log_softmax", "batchnorm"}
    BY DEF nn_decompose
  <2> QED BY <2>1 DEF Decompositions
<1> QED BY <1>16, <1>17, KeepSound, RuleForSound DEF get_f_forge_decompose

(* The rules of the PostOptimize pass.                                     *)
LEMMA PostOptimizeSound ==
  \A k : Sound(get_f_forge_decompose_post_optimize(k), RuleOps, {"unsupported"})
<1> SUFFICES ASSUME NEW k
             PROVE  Sound(get_f_forge_decompose_post_optimize(k), RuleOps, {"unsupported"})
  OBVIOUS
<1>1. ASSUME k = "select", NEW o \in tm_decompose_post_optimize[k] PROVE MadeOf(o, RuleOps)
  <2>1. CASE o = Make({"nop"})
    BY <2>1, MadeIs DEF Make, RuleOps
  <2>2. CASE \E t \in SUBSET {"transpose"} : o = Make(t \cup {"pad_tile", "sparse_matmul", "narrow"})
    <3>1. PICK t \in SUBSET {"transpose"} :
            o = MakeAs(t \cup {"pad_tile", "sparse_matmul", "narrow"}, {})
      BY <2>2 DEF Make
    <3>2. t \cup {"pad_tile", "sparse_matmul", "narrow"} \subseteq RuleOps
      BY DEF RuleOps
    <3> QED BY <3>1, <3>2, MadeIs
  <2> QED BY <1>1, <2>1, <2>2 DEF tm_decompose_post_optimize
<1>2. ASSUME k \in Unaligned, NEW o \in tm_decompose_post_optimize[k] PROVE MadeOf(o, RuleOps)
  <2> DEFINE T == {{}, {"sparse_matmul"}, {"transpose", "sparse_matmul"},
                   {"unsqueeze", "transpose", "sparse_matmul"}}
  <2>1. PICK t \in T : o = MakeAs(t \cup {"pad_tile", "narrow"}, {k})
    BY <1>2 DEF tm_decompose_post_optimize, Unaligned
  <2>2. t \cup {"pad_tile", "narrow"} \subseteq RuleOps /\ {k} \subseteq RuleOps
    BY <1>2 DEF RuleOps, Unaligned
  <2> QED BY <2>1, <2>2, MadeIs
<1>3. DOMAIN tm_decompose_post_optimize = {"select"} \cup Unaligned
  BY DEF tm_decompose_post_optimize
<1>4. k \in DOMAIN tm_decompose_post_optimize =>
        /\ Sound(tm_decompose_post_optimize[k], RuleOps, {"unsupported"})
        /\ tm_decompose_post_optimize[k] # {Keep}
  BY <1>1, <1>2, <1>3, MakesSound
<1> QED BY <1>4, KeepSound, RuleForSound DEF get_f_forge_decompose_post_optimize

(* The rules of the PostAutograd pass.                                     *)
LEMMA PostAutogradSound ==
  \A k : /\ Sound(get_f_forge_decompose_post_autograd(k), RuleOps, WhyPostAutograd(k))
         /\ k = "layernorm" => get_f_forge_decompose_post_autograd(k) # {Keep}
<1> SUFFICES ASSUME NEW k
             PROVE  /\ Sound(get_f_forge_decompose_post_autograd(k), RuleOps, WhyPostAutograd(k))
                    /\ k = "layernorm" => get_f_forge_decompose_post_autograd(k) # {Keep}
  OBVIOUS
<1> DEFINE OK(m) == k \in DOMAIN m => Sound(m[k], RuleOps, WhyPostAutograd(k)) /\ m[k] # {Keep}
           binary == eltwise_binary_decompose_post_autograd
           nn     == nn_decompose_post_autograd
<1>1. OK(binary)
  <2>1. ASSUME k = "heaviside", NEW o \in binary[k] PROVE MadeOf(o, RuleOps)
    BY <2>1, MadeIs DEF eltwise_binary_decompose_post_autograd, Make, RuleOps
  <2>2. ASSUME k = "maximum", NEW o \in binary[k] PROVE MadeOf(o, RuleOps)
    <3>1. PICK t \in SUBSET {"unsqueeze", "squeeze"}, c \in {"concatenate", "interleave"} :
            o = MakeAs(t \cup {c, "reduce_max"}, {})
      BY <2>2 DEF eltwise_binary_decompose_post_autograd, Make
    <3>2. t \cup {c, "reduce_max"} \subseteq RuleOps
      BY DEF RuleOps
    <3> QED BY <3>1, <3>2, MadeIs
  <2>3. DOMAIN binary = {"heaviside", "maximum"}
    BY DEF eltwise_binary_decompose_post_autograd
  <2> HIDE DEF binary
  <2> QED BY <2>1, <2>2, <2>3, MakesSound
<1>2. OK(nn)
  <2>1. ASSUME k \in {"layernorm", "layernorm_bw"}, NEW o \in nn[k] PROVE MadeOf(o, RuleOps)
    BY <2>1, MadeIs DEF nn_decompose_post_autograd, layernorm_bw_bias, Make, RuleOps
  <2>2. ASSUME k \in {"log_softmax", "batchnorm"}, NEW o \in nn[k]
        PROVE  RaisedFor(o, WhyPostAutograd(k))
    BY <2>2 DEF nn_decompose_post_autograd, Forbidden, RaisedFor, WhyPostAutograd
  <2>3. DOMAIN nn = {"layernorm", "layernorm_bw", "log_softmax", "batchnorm"}
    BY DEF nn_decompose_post_autograd
  <2> HIDE DEF nn
  <2> QED BY <2>1, <2>2, <2>3, MakesSound
<1>3. \A m \in {binary, nn} :
        k \in DOMAIN m => Sound(m[k], RuleOps, WhyPostAutograd(k)) /\ m[k] # {Keep}
  <2> HIDE DEF binary, nn
  <2> QED BY <1>1, <1>2
<1>4. k = "layernorm" => \E m \in {binary, nn} : k \in DOMAIN m
  BY DEF nn_decompose_post_autograd
<1> HIDE DEF binary, nn
<1>5. /\ Sound(RuleFor({binary, nn}, k, {Keep}), RuleOps, WhyPostAutograd(k))
      /\ k = "layernorm" => RuleFor({binary, nn}, k, {Keep}) # {Keep}
  BY <1>3, <1>4, KeepSound, RuleForSound
<1> QED BY <1>5 DEF get_f_forge_decompose_post_autograd, binary, nn

(* Backward of the operands; an op without one has no gradient.            *)
LEMMA GradientsSound ==
  \A k : Sound(get_f_forge_backward(k), GradientOps, {"unsupported"})
<1> SUFFICES ASSUME NEW k PROVE Sound(get_f_forge_backward(k), GradientOps, {"unsupported"})
  OBVIOUS
<1> DEFINE OK(m) == k \in DOMAIN m =>
                     Sound(m[k], GradientOps, {"unsupported"}) /\ m[k] # {Keep}
<1>1. OK(eltwise_unary_backward)
  <2>1. ASSUME k \in DOMAIN eltwise_unary_backward, NEW o \in eltwise_unary_backward[k]
        PROVE  MadeOf(o, GradientOps)
    BY <2>1, MadeIs DEF eltwise_unary_backward, Make, GradientOps
  <2> QED BY <2>1, MakesSound
<1>2. OK(newstyle_unary_backward)
  BY MadeIs, MakesSound DEF newstyle_unary_backward, Make, GradientOps, Unsupported, RaisedFor
<1>3. OK(eltwise_binary_backward)
  BY MadeIs, MakesSound DEF eltwise_binary_backward, Make, GradientOps
<1>4. OK(eltwise_nary_backward)
  BY MadeIs, MakesSound DEF eltwise_nary_backward, Make, GradientOps
<1>5. OK(matmul_backward)
  BY MadeIs, MakesSound DEF matmul_backward, Make, GradientOps, Unsupported, RaisedFor
<1>6. OK(reduce_backward)
  <2>1. ASSUME k = "reduce_max", NEW o \in reduce_backward[k] PROVE MadeOf(o, GradientOps)
    <3>1. PICK r \in SUBSET {"reduce_max"} :
            o = MakeAs(r \cup {"subtract", "add", "relu", "multiply"}, {})
      BY <2>1 DEF reduce_backward, Make
    <3>2. r \cup {"subtract", "add", "relu", "multiply"} \subseteq GradientOps
      BY DEF GradientOps
    <3> QED BY <3>1, <3>2, MadeIs
  <2>2. ASSUME k \in {"reduce_sum", "reduce_avg", "grouped_reduce_avg"}, NEW o \in reduce_backward[k]
        PROVE  MadeOf(o, GradientOps)
    BY <2>2, MadeIs DEF reduce_backward, Make, GradientOps
  <2>3. DOMAIN reduce_backward = {"reduce_sum", "reduce_max", "reduce_avg", "grouped_reduce_avg"}
    BY DEF reduce_backward
  <2> QED BY <2>1, <2>2, <2>3, MakesSound
<1>7. OK(tm_backward)
  <2>1. ASSUME k \in DOMAIN tm_backward, NEW o \in tm_backward[k]
        PROVE  MadeOf(o, GradientOps) \/ RaisedFor(o, {"unsupported"})
    BY <2>1, MadeIs DEF tm_backward, Make, GradientOps, Unsupported, RaisedFor
  <2> QED BY <2>1, MakesSound
<1>8. OK(other_backward)
  BY MadeIs, MakesSound DEF other_backward, Make, GradientOps
<1> HIDE DEF OK
<1>9. \A m \in Gradients : OK(m)
  BY <1>1, <1>2, <1>3, <1>4, <1>5, <1>6, <1>7, <1>8 DEF Gradients
<1>10. Sound(Unsupported, GradientOps, {"unsupported"})
  BY MakesSound DEF Unsupported, RaisedFor
<1> QED BY <1>9, <1>10, RuleForSound DEF get_f_forge_backward, OK

-----------------------------------------------------------------------------
(* The namespaces of the ops, and the dispatch to them.                    *)

(* The namespace asserts the type the switch calls it for, and its own     *)
(* rules are as sound as those of the modules.                             *)
Fits(r, t) ==
  /\ r.type = t
  /\ r.native =>
       /\ Sound(r.initial, RuleOps, {"unsupported"})
       /\ Sound(r.post_autograd, RuleOps, {"unsupported"})
       /\ Sound(r.backward, GradientOps, {"unsupported"})

LEMMA Delegates == \A t : Fits(Delegating(t), t)
BY DEF Delegating, Fits

(* The namespaces with code of their own.                                  *)
LEMMA Natives ==
  /\ Fits(abs, "Abs")
  /\ Fits(add, "Add")
  /\ Fits(concatenate, "Concatenate")
  /\ Fits(constant, "Constant")
  /\ Fits(cosine, "Cosine")
  /\ Fits(divide, "Divide")
  /\ Fits(multiply, "Multiply")
  /\ Fits(reshape, "Reshape")
  /\ Fits(sine, "Sine")
  /\ Fits(softmax, "Softmax")
  /\ Fits(softmax_bw, "SoftmaxBw")
  /\ Fits(squeeze, "Squeeze")
  /\ Fits(subtract, "Subtract")
  /\ Fits(transpose, "Transpose")
  /\ Fits(unsqueeze, "Unsqueeze")
<1>1. Fits(abs, "Abs")
  <2>1. Sound({Make({"heaviside", "subtract", "multiply"})}, GradientOps, {"unsupported"})
    BY MadeIs, MakesSound DEF Make, GradientOps
  <2> QED BY <2>1, KeepSound DEF abs, Native, Fits
<1>2. Fits(add, "Add")
  BY KeepSound, MadeIs, MakesSound DEF add, Native, Fits, Make, RuleOps, GradientOps, Unbroadcast
<1>3. Fits(concatenate, "Concatenate")
  BY KeepSound, MadeIs, MakesSound DEF concatenate, Native, Fits, Make, RuleOps, GradientOps
<1>4. Fits(constant, "Constant")
  BY KeepSound, MadeIs, MakesSound DEF constant, Native, Fits, Make, RuleOps, GradientOps, Unsupported, RaisedFor
<1>5. Fits(cosine, "Cosine")
  BY KeepSound, MadeIs, MakesSound DEF cosine, Native, Fits, Make, RuleOps, GradientOps
<1>6. Fits(divide, "Divide")
  BY KeepSound, MadeIs, MakesSound DEF divide, Native, Fits, Make, RuleOps, GradientOps, Unbroadcast
<1>7. Fits(multiply, "Multiply")
  BY SMTT(30), KeepSound, MadeIs, MakesSound DEF multiply, Native, Fits, Make, RuleOps, GradientOps, Unbroadcast
<1>8. Fits(reshape, "Reshape")
  BY KeepSound, MadeIs, MakesSound DEF reshape, Native, Fits, Make, RuleOps, GradientOps, decompose_reshape
<1>9. Fits(sine, "Sine")
  BY KeepSound, MadeIs, MakesSound DEF sine, Native, Fits, Make, RuleOps, GradientOps
<1>10. Fits(softmax, "Softmax")
  BY KeepSound, MadeIs, MakesSound DEF softmax, Native, Fits, Make, RuleOps, GradientOps
<1>11. Fits(softmax_bw, "SoftmaxBw")
  <2>1. Sound(Unsupported, GradientOps, {"unsupported"})
    BY MakesSound DEF Unsupported, RaisedFor
  <2>2. Sound({Make({"multiply", "reduce_sum", "subtract"})}, RuleOps, {"unsupported"})
    BY MadeIs, MakesSound DEF Make, RuleOps
  <2> QED BY <2>1, <2>2, KeepSound DEF softmax_bw, Native, Fits
<1>12. Fits(squeeze, "Squeeze")
  BY KeepSound, MadeIs, MakesSound DEF squeeze, Native, Fits, Make, RuleOps, GradientOps
<1>13. Fits(subtract, "Subtract")
  <2>1. Sound(Unbroadcast({"nop"}, {"nop"}) \cup Unbroadcast({"multiply"}, {"multiply"}),
              GradientOps, {"unsupported"})
    BY MadeIs, MakesSound DEF Make, GradientOps, Unbroadcast
  <2>2. Sound({MakeAs({"reshape"}, {"subtract"})}, RuleOps, {"unsupported"})
    BY MadeIs, MakesSound DEF RuleOps
  <2> QED BY <2>1, <2>2, KeepSound DEF subtract, Native, Fits
<1>14. Fits(transpose, "Transpose")
  BY KeepSound, MadeIs, MakesSound DEF transpose, Native, Fits, Make, RuleOps, GradientOps
<1>15. Fits(unsqueeze, "Unsqueeze")
  BY SMTT(30), KeepSound, MadeIs, MakesSound DEF unsqueeze, Native, Fits, Make, RuleOps, GradientOps
<1> QED BY <1>1, <1>2, <1>3, <1>4, <1>5, <1>6, <1>7, <1>8, <1>9, <1>10, <1>11, <1>12, <1>13, <1>14, <1>15

(* Every type of the switch has its own namespace.                         *)
LEMMA SwitchFits == \A t \in OpType : Fits(Switch[t], t)
<1>1. \A t \in {"Abs", "AdaptiveMaxPool2d", "Add", "AdvIndex", "Argmax", "Atan",
       "AvgPool1d", "AvgPool2d", "AvgPool3d", "Batchnorm", "Broadcast", "Buffer"} :
       Fits(Switch[t], t)
  BY Delegates, Natives DEF Switch, adaptive_max_pool_2d, adv_index, argmax, atan,
     avg_pool_1d, avg_pool_2d, avg_pool_3d, batchnorm, broadcast, buffer
<1>2. \A t \in {"Cast", "Clip", "Concatenate", "Constant", "Conv2d",
       "Conv2dDepthwiseWeights", "Conv2dDepthwiseWeightsBw", "Conv2dGroupedWeights",
       "Conv2dGroupedWeightsBw", "Conv2dPrestrideAct", "Conv2dPrestrideWeights",
       "Conv2dTranspose"} : Fits(Switch[t], t)
  BY Delegates, Natives DEF Switch, cast, clip, conv_2d, conv_2d_depthwise_weights,
     conv_2d_depthwise_weights_bw, conv_2d_grouped_weights, conv_2d_grouped_weights_bw,
     conv_2d_prestride_act, conv_2d_prestride_weights, conv_2d_transpose
<1>3. \A t \in {"Conv3d", "ConvSum", "Cosine", "CumulativeSum", "Depthwise", "Dequantize",
       "Divide", "Downsample2d", "DramQueue", "Dropout", "Embedding", "EmbeddingBw"} :
       Fits(Switch[t], t)
  BY Delegates, Natives DEF Switch, conv_3d, conv_Sum, cumulative_sum, depthwise,
     dequantize, downsample_2d, dram_queue, dropout, embedding, embedding_bw
<1>4. \A t \in {"Equal", "Erf", "EthernetDatacopy", "Exp", "FillCache", "ForgeDequantize",
       "ForgePad", "ForgeQuantize", "ForgeRequantize", "ForgeUnpad", "Gather", "Gelu"} :
       Fits(Switch[t], t)
  BY Delegates, Natives DEF Switch, equal, erf, ethernet_data_copy, exp, fill_cache,
     forge_dequantize, forge_pad, forge_quantize, forge_requantize, forge_unpad, gather,
     gelu
<1>5. \A t \in {"GeluDerivative", "Greater", "GreaterEqual", "GroupedReduceAvg",
       "Heaviside", "Hslice", "Hstack", "Index", "IndexCopy", "Interleave", "Layernorm",
       "LayernormBw"} : Fits(Switch[t], t)
  BY Delegates, Natives DEF Switch, gelu_derivative, greater, greater_equal,
     grouped_reduce_avg, heaviside, hslice, hstack, index, index_copy, interleave,
     layernorm, layernorm_bw
<1>6. \A t \in {"LeakyRelu", "Less", "LessEqual", "Log", "LogSoftmax", "LogicalAnd",
       "LogicalNot", "Mask", "Matmul", "MaxPool1d", "MaxPool2d", "MaxPool3d"} :
       Fits(Switch[t], t)
  BY Delegates, Natives DEF Switch, leaky_relu, less, less_equal, log, log_softmax,
     logical_and, logical_not, mask, matmul, max_pool_1d, max_pool_2d, max_pool_3d
<1>7. \A t \in {"Maximum", "Minimum", "Multiply", "Narrow", "Nop", "NotEqual", "Pad",
       "PadTile", "PixelShuffle", "Pow", "Power", "Quantize"} : Fits(Switch[t], t)
  BY Delegates, Natives DEF Switch, maximum, minimum, narrow, nop, not_equal, pad,
     pad_tile, pixel_shuffle, pow, power, quantize
<1>8. \A t \in {"Reciprocal", "ReduceAvg", "ReduceMax", "ReduceSum", "Relu", "Remainder",
       "Repeat", "RepeatInterleave", "Requantize", "Reshape", "Resize1d", "Resize2d"} :
       Fits(Switch[t], t)
  BY Delegates, Natives DEF Switch, reciprocal, reduce_avg, reduce_max, reduce_sum, relu,
     remainder, repeat, repeat_interleave, requantize, resize_1d, resize_2d
<1>9. \A t \in {"Resize3d", "Select", "Sigmoid", "Sine", "Softmax", "SoftmaxBw",
       "SparseMatmul", "Sqrt", "Squeeze", "Stack", "Subtract", "Tanh"} : Fits(Switch[t], t)
  BY Delegates, Natives DEF Switch, resize_3d, select, sigmoid, sparse_matmul, sqrt,
     stack, tanh
<1>10. \A t \in {"TileBroadcast", "Tilizer", "Transpose", "Unsqueeze", "UpdateCache",
       "Upsample2d", "Vslice", "Vstack", "Where"} : Fits(Switch[t], t)
  BY Delegates, Natives DEF Switch, tile_broadcast, tilizer, update_cache, upsample_2d,
     vslice, vstack, where
<1> QED BY <1>1, <1>2, <1>3, <1>4, <1>5, <1>6, <1>7, <1>8, <1>9, <1>10 DEF OpType, NewToOldOpType

(* An op of the registry reaches the rules that are meant for it.          *)
LEMMA Dispatched ==
  ASSUME NEW k \in OpNames, NEW own, NEW base
  PROVE  /\ OldToNewOpType[k] \in OpType
         /\ Dispatch(k, own, base) =
              IF Switch[OldToNewOpType[k]].native THEN own[OldToNewOpType[k]] ELSE base
<1>1. OldToNewOpType[k] \in OpType
  BY DEF OpNames, OldToNewOpType
<1>2. Switch[OldToNewOpType[k]].type = OldToNewOpType[k]
  BY <1>1, SwitchFits DEF Fits
<1> QED BY <1>1, <1>2 DEF Dispatch

(* What the rules of a pass may raise for.                                 *)
Why(s, k) ==
  CASE s = "POST_INITIAL_GRAPH_PASS" -> WhyInitial(k)
    [] s = "OPTIMIZED_GRAPH" -> {"unsupported"}
    [] s = "POST_AUTOGRAD_PASS" -> WhyPostAutograd(k)

(* Raising for fewer reasons is as sound.                                  *)
LEMMA SoundMore ==
  ASSUME NEW R, NEW N, NEW V, NEW W, V \subseteq W, Sound(R, N, V)
  PROVE  Sound(R, N, W)
BY DEF Sound

(* The rules of all passes are sound.                                      *)
LEMMA PassRuleSound ==
  ASSUME NEW s \in DecomposeStages, NEW k \in OpNames
  PROVE  Sound(PassRule(s, k), RuleOps, Why(s, k))
<1> DEFINE t == OldToNewOpType[k]
<1>1. t \in OpType /\ Fits(Switch[t], t)
  BY Dispatched, SwitchFits
<1> HIDE DEF t
<1>2. CASE s = "POST_INITIAL_GRAPH_PASS"
  <2>1. Op_decompose_initial(k) =
          IF Switch[t].native THEN Switch[t].initial ELSE get_f_forge_decompose(k)
    BY <1>1, Dispatched DEF Op_decompose_initial, t
  <2>2. {"unsupported"} \subseteq WhyInitial(k)
    BY DEF WhyInitial
  <2>3. Sound(Op_decompose_initial(k), RuleOps, WhyInitial(k))
    BY <1>1, <2>1, <2>2, DecomposeSound, SoundMore DEF Fits
  <2> QED BY <1>2, <2>3 DEF PassRule, Why
<1>3. CASE s = "OPTIMIZED_GRAPH"
  <2>1. Op_decompose_post_optimize(k) =
          IF Switch[t].native THEN {Keep} ELSE get_f_forge_decompose_post_optimize(k)
    BY <1>1, Dispatched DEF Op_decompose_post_optimize, t
  <2>2. Sound(Op_decompose_post_optimize(k), RuleOps, {"unsupported"})
    BY <2>1, PostOptimizeSound, KeepSound
  <2> QED BY <1>3, <2>2 DEF PassRule, Why
<1>4. CASE s = "POST_AUTOGRAD_PASS"
  <2>1. Op_decompose_post_autograd(k) =
          IF Switch[t].native THEN Switch[t].post_autograd
          ELSE get_f_forge_decompose_post_autograd(k)
    BY <1>1, Dispatched DEF Op_decompose_post_autograd, t
  <2>2. {"unsupported"} \subseteq WhyPostAutograd(k)
    BY DEF WhyPostAutograd
  <2>3. Sound(Op_decompose_post_autograd(k), RuleOps, WhyPostAutograd(k))
    BY <1>1, <2>1, <2>2, PostAutogradSound, SoundMore DEF Fits
  <2> QED BY <1>4, <2>3 DEF PassRule, Why
<1> QED BY <1>2, <1>3, <1>4 DEF DecomposeStages

(* So are the gradients.                                                   *)
LEMMA BackwardSound ==
  ASSUME NEW k \in OpNames
  PROVE  Sound(Op_backward(k), GradientOps, {"unsupported"})
<1> DEFINE t == OldToNewOpType[k]
<1>1. t \in OpType /\ Fits(Switch[t], t)
  BY Dispatched, SwitchFits
<1> HIDE DEF t
<1>2. Op_backward(k) = IF Switch[t].native THEN Switch[t].backward ELSE get_f_forge_backward(k)
  BY <1>1, Dispatched DEF Op_backward, t
<1> QED BY <1>1, <1>2, GradientsSound DEF Fits

(* Shapes are computed or not supported.                                   *)
LEMMA ShapeSound ==
  ASSUME NEW k \in OpNames
  PROVE  Op_shape(k) \in {{Keep}, Unsupported}
<1>1. OldToNewOpType[k] \in OpType
  BY Dispatched
<1> QED BY <1>1, Dispatched DEF Op_shape

(* The ops that no later pass may meet are rewritten whatever they are.    *)
LEMMA AlwaysRewritten ==
  /\ \A k \in {"log_softmax", "batchnorm"} : PassRule("POST_INITIAL_GRAPH_PASS", k) # {Keep}
  /\ PassRule("POST_AUTOGRAD_PASS", "layernorm") # {Keep}
<1>1. /\ {"LogSoftmax", "Batchnorm", "Layernorm"} \subseteq OpType
      /\ NewToOldOpType["LogSoftmax"] = "log_softmax"
      /\ NewToOldOpType["Batchnorm"] = "batchnorm"
      /\ NewToOldOpType["Layernorm"] = "layernorm"
  BY DEF OpType, NewToOldOpType
<1>2. \A t \in OpType : /\ NewToOldOpType[t] = "log_softmax" => t = "LogSoftmax"
                        /\ NewToOldOpType[t] = "batchnorm" => t = "Batchnorm"
                        /\ NewToOldOpType[t] = "layernorm" => t = "Layernorm"
  BY SMTT(60) DEF OpType, NewToOldOpType
<1>3. {"log_softmax", "batchnorm", "layernorm"} \subseteq OpNames
  BY <1>1 DEF OpNames
<1>4. /\ OldToNewOpType["log_softmax"] = "LogSoftmax"
      /\ OldToNewOpType["batchnorm"] = "Batchnorm"
      /\ OldToNewOpType["layernorm"] = "Layernorm"
  BY <1>1, <1>2, <1>3 DEF OldToNewOpType
<1>5. /\ Switch["LogSoftmax"].native = FALSE
      /\ Switch["Batchnorm"].native = FALSE
      /\ Switch["Layernorm"].native = FALSE
  BY DEF Switch, log_softmax, batchnorm, layernorm, Delegating
<1>6. ASSUME NEW k \in {"log_softmax", "batchnorm"}
      PROVE  PassRule("POST_INITIAL_GRAPH_PASS", k) # {Keep}
  <2>1. Op_decompose_initial(k) = get_f_forge_decompose(k)
    BY <1>3, <1>4, <1>5, Dispatched DEF Op_decompose_initial
  <2> QED BY <2>1, DecomposeSound DEF PassRule
<1>7. PassRule("POST_AUTOGRAD_PASS", "layernorm") # {Keep}
  <2>1. Op_decompose_post_autograd("layernorm") = get_f_forge_decompose_post_autograd("layernorm")
    BY <1>3, <1>4, <1>5, Dispatched DEF Op_decompose_post_autograd
  <2> QED BY <2>1, PostAutogradSound DEF PassRule
<1> QED BY <1>6, <1>7

(* The ops rules make are ops of the registry.                             *)
LEMMA NamesKnown == RuleOps \subseteq OpNames /\ GradientOps \subseteq OpNames
<1>1. {"add", "adv_index", "avg_pool2d", "broadcast", "buffer", "concatenate", "conv2d",
       "conv2d_depthwise_weights_bw"} \subseteq OpNames
  BY DEF OpNames, OpType, NewToOldOpType
<1>2. {"conv2d_grouped_weights_bw", "conv2d_transpose", "conv_sum", "cosine", "divide",
       "downsample2d", "dropout", "embedding"} \subseteq OpNames
  BY DEF OpNames, OpType, NewToOldOpType
<1>3. {"embedding_bw", "equal", "exp", "forge_dequantize", "forge_quantize",
       "forge_requantize", "gelu_derivative", "greater"} \subseteq OpNames
  BY DEF OpNames, OpType, NewToOldOpType
<1>4. {"greater_equal", "heaviside", "hslice", "hstack", "index", "interleave",
       "layernorm_bw", "less"} \subseteq OpNames
  BY DEF OpNames, OpType, NewToOldOpType
<1>5. {"less_equal", "log", "matmul", "max_pool2d", "multiply", "narrow", "nop", "pad"}
       \subseteq OpNames
  BY DEF OpNames, OpType, NewToOldOpType
<1>6. {"pad_tile", "reciprocal", "reduce_avg", "reduce_max", "reduce_sum", "relu", "repeat",
       "reshape"} \subseteq OpNames
  BY DEF OpNames, OpType, NewToOldOpType
<1>7. {"select", "sine", "softmax", "softmax_bw", "sparse_matmul", "sqrt", "squeeze",
       "subtract"} \subseteq OpNames
  BY DEF OpNames, OpType, NewToOldOpType
<1>8. {"tanh", "transpose", "unsqueeze", "upsample2d", "vslice", "vstack"} \subseteq OpNames
  BY DEF OpNames, OpType, NewToOldOpType
<1> QED BY <1>1, <1>2, <1>3, <1>4, <1>5, <1>6, <1>7, <1>8 DEF RuleOps, GradientOps

-----------------------------------------------------------------------------
(* The sweeps.                                                             *)

(* Nodes a sweep has visited and let be need no more visits, unless it has *)
(* removed a node; then another sweep follows.                             *)
SweepInv ==
  /\ graph \subseteq Nodes
  /\ pending \subseteq graph
  /\ stage \in DecomposeStages /\ ~removed =>
       \A n \in graph \ pending : Rule(stage, n) = {Keep}

(* Ops that some rule asserts it never meets, and where they may be.       *)
EarlyStages == {"INIT_COMPILE", "GENERATE_INITIAL_GRAPH", "POST_INITIAL_GRAPH_PASS"}

(* No gradients yet; log_softmax and batchnorm do not outlive the Initial  *)
(* pass; a layernorm comes before its gradients in every sweep, and is     *)
(* decomposed when it is visited.                                          *)
OrderInv ==
  /\ stage \in EarlyStages \cup {"POST_PATTERN_MATCHER", "OPTIMIZED_GRAPH"} =>
       \A n \in graph : n.op \notin {"embedding_bw", "layernorm_bw"}
  /\ \A n \in graph : n.op \in {"log_softmax", "batchnorm"} =>
       n.form = "raw" /\ stage \in EarlyStages \cup Terminal
  /\ \A n \in graph : n.op = "layernorm" => n.form = "raw" /\ n.epoch # "Backward"
  /\ \A n \in graph : n.op = "layernorm_bw" => n.epoch = "Backward"
  /\ stage = "POST_AUTOGRAD_PASS" =>
       \A n \in graph : n.op = "layernorm" => n \in pending \/ (pending = {} /\ removed)
  /\ AssertionsHold

(* The node a sweep is at is one it has not visited, and none of those     *)
(* comes before it.                                                        *)
LEMMA NextNode ==
  ASSUME pending # {}, pending \subseteq Nodes
  PROVE  /\ Next_node \in pending
         /\ \A m \in pending : Rank(Next_node.epoch) <= Rank(m.epoch)
<1>1. \A n \in pending : Rank(n.epoch) = 1 \/ Rank(n.epoch) = 2 \/ Rank(n.epoch) = 3
  BY DEF Rank
<1>2. \E n \in pending : \A m \in pending : Rank(n.epoch) <= Rank(m.epoch)
  <2>1. CASE \E n \in pending : Rank(n.epoch) = 1
    BY <1>1, <2>1
  <2>2. CASE (\A n \in pending : Rank(n.epoch) # 1) /\ \E n \in pending : Rank(n.epoch) = 2
    BY <1>1, <2>2
  <2>3. CASE \A n \in pending : Rank(n.epoch) = 3
    BY <2>3
  <2> QED BY <1>1, <2>1, <2>2, <2>3
<1> QED BY <1>2 DEF Next_node

(* What a rule makes are nodes of the epoch it is called for.              *)
LEMMA CreatedNodes ==
  ASSUME NEW o, NEW e \in Epochs, NEW new \in Created(o, e),
         o.ops \subseteq OpNames, o.plain \subseteq OpNames
  PROVE  /\ new \subseteq Nodes
         /\ \A n \in new : n.epoch = e /\ n.op \in o.ops \cup o.plain
<1>1. PICK f \in [o.ops -> {"raw", "plain"}] :
        new = {[op |-> k, form |-> f[k], epoch |-> e] : k \in o.ops}
              \cup {[op |-> k, form |-> "plain", epoch |-> e] : k \in o.plain}
  BY DEF Created
<1>2. ASSUME NEW n \in new
      PROVE  n \in Nodes /\ n.epoch = e /\ n.op \in o.ops \cup o.plain
  <2>1. CASE \E k \in o.ops : n = [op |-> k, form |-> f[k], epoch |-> e]
    BY <2>1 DEF Nodes
  <2>2. CASE \E k \in o.plain : n = [op |-> k, form |-> "plain", epoch |-> e]
    BY <2>2 DEF Nodes
  <2> QED BY <1>1, <2>1, <2>2
<1> QED BY <1>2

(* What is called for a node of a sweep.                                   *)
LEMMA RuleSound ==
  ASSUME NEW s \in DecomposeStages, NEW n \in Nodes
  PROVE  Sound(Rule(s, n), RuleOps, Why(s, n.op))
<1>1. n.op \in OpNames
  BY DEF Nodes
<1> QED BY <1>1, PassRuleSound, KeepSound DEF Rule

(* A decomposition step in the three ways it goes.                         *)
LEMMA DecomposeCases ==
  ASSUME SweepInv, Decompose
  PROVE  /\ stage \in DecomposeStages
         /\ Next_node \in pending /\ Next_node \in Nodes
         /\ \A m \in pending : Rank(Next_node.epoch) <= Rank(m.epoch)
         /\ \/ /\ Rule(stage, Next_node) = {Keep}
               /\ pending' = pending \ {Next_node}
               /\ UNCHANGED <<stage, config, graph, removed, failure>>
            \/ /\ Rule(stage, Next_node) # {Keep}
               /\ \E new \in SUBSET Nodes :
                    /\ \A n \in new : n.epoch = Next_node.epoch /\ n.op \in RuleOps
                    /\ graph' = (graph \ {Next_node}) \cup new
               /\ pending' = pending \ {Next_node}
               /\ removed' = TRUE
               /\ UNCHANGED <<stage, config, failure>>
            \/ \E why \in Why(stage, Next_node.op) : Fail(why)
            \/ /\ Next_node.op = "layernorm_bw" /\ Rule(stage, Next_node) # {Keep}
               /\ \E m \in graph : m.op = "layernorm"
               /\ Fail("no operands")
<1>1. stage \in DecomposeStages /\ pending # {}
  BY DEF Decompose
<1>2. pending \subseteq Nodes
  BY DEF SweepInv
<1>3. /\ Next_node \in pending
      /\ \A m \in pending : Rank(Next_node.epoch) <= Rank(m.epoch)
  BY <1>1, <1>2, NextNode
<1>4. Next_node \in Nodes
  BY <1>2, <1>3
<1>5. Sound(Rule(stage, Next_node), RuleOps, Why(stage, Next_node.op))
  BY <1>1, <1>4, RuleSound
<1>6. PICK o \in Rule(stage, Next_node) :
        \/ /\ o.does = "keep"
           /\ pending' = pending \ {Next_node}
           /\ UNCHANGED <<stage, config, graph, removed, failure>>
        \/ /\ o.does = "make"
           /\ \E new \in Created(o, Next_node.epoch) : graph' = (graph \ {Next_node}) \cup new
           /\ pending' = pending \ {Next_node}
           /\ removed' = TRUE
           /\ UNCHANGED <<stage, config, failure>>
        \/ /\ o.does = "make" => ~OperandsFound(Next_node, o)
           /\ o.does # "keep"
           /\ Fail(IF o.does = "raise" THEN o.why ELSE "no operands")
  BY DEF Decompose
<1>7. /\ \/ o.does = "keep" /\ Rule(stage, Next_node) = {Keep}
         \/ o.does = "make"
         \/ o.does = "raise" /\ o.why \in Why(stage, Next_node.op)
      /\ o.ops \subseteq RuleOps /\ o.plain \subseteq RuleOps
  BY <1>5 DEF Sound
<1>8. o.does # "keep" => Rule(stage, Next_node) # {Keep}
  <2>1. Keep.does = "keep"
    BY DEF Keep
  <2>2. o \in Rule(stage, Next_node)
    BY <1>6
  <2> QED BY <2>1, <2>2
<1>9. CASE o.does = "keep"
  BY <1>1, <1>3, <1>4, <1>6, <1>7, <1>9
<1>10. ASSUME o.does = "make", NEW new \in Created(o, Next_node.epoch),
             graph' = (graph \ {Next_node}) \cup new
      PROVE  /\ new \subseteq Nodes
             /\ \A n \in new : n.epoch = Next_node.epoch /\ n.op \in RuleOps
  <2>1. o.ops \subseteq OpNames /\ o.plain \subseteq OpNames /\ Next_node.epoch \in Epochs
    BY <1>4, <1>7, NamesKnown DEF Nodes
  <2> QED BY <1>7, <1>10, <2>1, CreatedNodes
<1>11. CASE o.does = "make" /\ ~Fail("no operands")
  BY <1>1, <1>3, <1>4, <1>6, <1>8, <1>10, <1>11
<1>12. CASE o.does = "make" /\ Fail("no operands")
  <2>1. pending' = pending
    BY <1>12 DEF Fail
  <2>2. ~OperandsFound(Next_node, o)
    BY <1>3, <1>6, <1>12, <2>1
  <2> QED BY <1>1, <1>3, <1>4, <1>8, <1>12, <2>2 DEF OperandsFound
<1>13. CASE o.does = "raise"
  BY <1>1, <1>3, <1>4, <1>6, <1>7, <1>13
<1> QED BY <1>7, <1>9, <1>11, <1>12, <1>13

(* A step of autograd in the two ways it goes.                             *)
LEMMA BackwardCases ==
  ASSUME SweepInv, Backward
  PROVE  /\ stage = "AUTOGRAD"
         /\ \/ /\ \E new \in SUBSET Nodes :
                    /\ \A n \in new : n.epoch = "Backward" /\ n.op \in GradientOps
                    /\ graph' = graph \cup new
               /\ pending' = pending \ {Next_node}
               /\ UNCHANGED <<stage, config, removed, failure>>
            \/ Fail("unsupported")
<1>1. stage = "AUTOGRAD" /\ pending # {} /\ pending \subseteq Nodes
  BY DEF Backward, SweepInv
<1>2. Next_node \in Nodes
  BY <1>1, NextNode
<1>3. Sound(Op_backward(Next_node.op), GradientOps, {"unsupported"})
  BY <1>2, BackwardSound DEF Nodes
<1> DEFINE Sums(parts) == [ops |-> UNION {o.ops : o \in parts},
                           plain |-> UNION {o.plain : o \in parts}]
<1>4. PICK parts \in SUBSET Op_backward(Next_node.op) :
        \/ /\ \A o \in parts : o.does = "make"
           /\ \E new \in Created(Sums(parts), "Backward") : graph' = graph \cup new
           /\ pending' = pending \ {Next_node}
           /\ UNCHANGED <<stage, config, removed, failure>>
        \/ \E o \in parts : o.does = "raise" /\ Fail(o.why)
  BY DEF Backward
<1>5. \A o \in parts : /\ o.does = "raise" => o.why = "unsupported"
                       /\ o.ops \subseteq GradientOps /\ o.plain \subseteq GradientOps
  <2> SUFFICES ASSUME NEW o \in parts
               PROVE  /\ o.does = "raise" => o.why = "unsupported"
                      /\ o.ops \subseteq GradientOps /\ o.plain \subseteq GradientOps
    OBVIOUS
  <2>1. o \in Op_backward(Next_node.op)
    OBVIOUS
  <2> QED BY <1>3, <2>1 DEF Sound
<1>6. Sums(parts).ops \subseteq GradientOps /\ Sums(parts).plain \subseteq GradientOps
  BY <1>5
<1> HIDE DEF Sums
<1>7. ASSUME NEW new \in Created(Sums(parts), "Backward")
      PROVE  /\ new \subseteq Nodes
             /\ \A n \in new : n.epoch = "Backward" /\ n.op \in GradientOps
  <2>1. /\ Sums(parts).ops \subseteq OpNames /\ Sums(parts).plain \subseteq OpNames
        /\ "Backward" \in Epochs
    BY <1>6, NamesKnown DEF Epochs
  <2>2. /\ new \subseteq Nodes
        /\ \A n \in new : n.epoch = "Backward"
                         /\ n.op \in Sums(parts).ops \cup Sums(parts).plain
    BY <1>7, <2>1, CreatedNodes
  <2> QED BY <1>6, <2>2
<1> QED BY <1>1, <1>4, <1>5, <1>7

-----------------------------------------------------------------------------
(* Every sweep is complete.                                                *)

LEMMA SweepInit == Init => SweepInv
<1> SUFFICES ASSUME Init PROVE SweepInv
  OBVIOUS
<1>1. PICK k \in UserOps, f \in {"raw", "plain"} :
        graph = {[op |-> k, form |-> f, epoch |-> "Forward"]}
  BY DEF Init
<1>2. [op |-> k, form |-> f, epoch |-> "Forward"] \in Nodes
  BY UserOpsAssumption DEF Nodes, Epochs
<1> QED BY <1>1, <1>2 DEF Init, SweepInv

LEMMA SweepNext ==
  ASSUME SweepInv, [Next]_vars
  PROVE  SweepInv'
<1> USE DEF SweepInv
<1>1. CASE Decompose
  <2>1. CASE /\ Rule(stage, Next_node) = {Keep}
             /\ pending' = pending \ {Next_node}
             /\ UNCHANGED <<stage, config, graph, removed, failure>>
    <3>1. \A n \in graph : Rule(stage, n)' = Rule(stage, n)
      BY <2>1 DEF Rule
    <3> QED BY <2>1, <3>1
  <2>2. ASSUME NEW new \in SUBSET Nodes, graph' = (graph \ {Next_node}) \cup new,
               pending' = pending \ {Next_node}, removed' = TRUE
        PROVE  SweepInv'
    BY <2>2
  <2>3. ASSUME NEW why, Fail(why) PROVE SweepInv'
    BY <2>3 DEF Fail, DecomposeStages
  <2> QED BY <1>1, <2>1, <2>2, <2>3, DecomposeCases
<1>2. CASE Backward
  <2>1. ASSUME NEW new \in SUBSET Nodes, graph' = graph \cup new, stage = "AUTOGRAD",
               pending' = pending \ {Next_node}, stage' = stage
        PROVE  SweepInv'
    BY <2>1 DEF DecomposeStages
  <2>2. CASE Fail("unsupported")
    BY <2>2 DEF Fail, DecomposeStages
  <2> QED BY <1>2, <2>1, <2>2, BackwardCases
<1>3. CASE StartSweep \/ StartAutograd
  BY <1>3 DEF StartSweep, StartAutograd, DecomposeStages
<1>4. ASSUME NEW why, Fail(why) PROVE SweepInv'
  BY <1>4 DEF Fail, DecomposeStages
<1>5. ASSUME NEW next, Return(next), graph' \subseteq Nodes PROVE SweepInv'
  BY <1>5 DEF Return
<1>6. CASE \/ InitCompile \/ PatternMatcher
           \/ run_post_initial_graph_passes \/ run_post_optimize_decompose_graph_passes
           \/ run_post_autograd_graph_passes \/ SplitGraph \/ FinishCompile
  BY <1>5, <1>6 DEF InitCompile, PatternMatcher, run_post_initial_graph_passes,
     run_post_optimize_decompose_graph_passes, run_post_autograd_graph_passes, SplitGraph,
     FinishCompile
<1>7. CASE GenerateInitialGraph
  BY <1>4, <1>5, <1>7 DEF GenerateInitialGraph
<1>8. CASE emit_mlir
  BY <1>4, <1>5, <1>8 DEF emit_mlir
<1>9. CASE EndAutograd
  <2>1. Return("POST_AUTOGRAD_PASS")
    BY <1>9 DEF EndAutograd
  <2>2. PICK again \in {{}} \cup IF config.enable_recompute
                               THEN {{n \in graph : n.epoch = "Forward"}} ELSE {} :
          graph' = graph \cup {[n EXCEPT !.epoch = "Recompute"] : n \in again}
    BY <1>9 DEF EndAutograd
  <2>3. again \subseteq Nodes
    BY <2>2
  <2>4. \A n \in Nodes : [n EXCEPT !.epoch = "Recompute"] \in Nodes
    BY DEF Nodes, Epochs
  <2> QED BY <1>5, <2>1, <2>2, <2>3, <2>4
<1>10. CASE ConstevalGraph
  BY <1>5, <1>10 DEF ConstevalGraph
<1>11. CASE run_pre_lowering_passes
  BY <1>5, <1>11 DEF run_pre_lowering_passes
<1>12. CASE UNCHANGED vars
  <2>1. \A n \in graph : Rule(stage, n)' = Rule(stage, n)
    BY <1>12 DEF Rule, vars
  <2> QED BY <1>12, <2>1 DEF vars
<1> QED BY <1>1, <1>2, <1>3, <1>6, <1>7, <1>8, <1>9, <1>10, <1>11, <1>12 DEF Next

LEMMA Sweeps == Spec => []SweepInv
BY SweepInit, SweepNext, PTL DEF Spec

(* A decomposition pass that returns has left no node its own rules would  *)
(* still rewrite, the ops that its rules made included: a sweep that       *)
(* removed a node is followed by another (decompose_tt_forge_graph).       *)
THEOREM PassesAlwaysSettle == Spec => PassesSettle
<1> DEFINE Settles == /\ stage \in DecomposeStages
                      /\ stage' \notin {stage, "FAILED"}
                      => \A n \in graph' : Rule(stage, n) = {Keep}
<1>1. ASSUME SweepInv, Next PROVE Settles
  <2> SUFFICES ASSUME stage \in DecomposeStages, stage' \notin {stage, "FAILED"}
               PROVE  \A n \in graph' : Rule(stage, n) = {Keep}
    OBVIOUS
  <2>1. CASE PassDone /\ graph' = graph
    BY <1>1, <2>1 DEF PassDone, SweepInv
  <2>2. CASE Decompose
    BY <1>1, <2>2, DecomposeCases DEF Fail
  <2>3. CASE StartSweep
    BY <2>3 DEF StartSweep
  <2>4. CASE \/ run_post_initial_graph_passes \/ run_post_optimize_decompose_graph_passes
             \/ run_post_autograd_graph_passes
    BY <2>1, <2>4 DEF run_post_initial_graph_passes, run_post_optimize_decompose_graph_passes,
       run_post_autograd_graph_passes
  <2>5. stage \notin {"INIT_COMPILE", "GENERATE_INITIAL_GRAPH", "POST_PATTERN_MATCHER", "AUTOGRAD",
                     "CONSTEVAL_GRAPH", "PRE_LOWERING_PASS", "SPLIT_GRAPH",
                     "RUN_MLIR_COMPILER", "FINISH_COMPILE"}
    BY DEF DecomposeStages
  <2> QED BY <1>1, <2>2, <2>3, <2>4, <2>5 DEF Next, InitCompile, GenerateInitialGraph,
        PatternMatcher, StartAutograd, Backward, EndAutograd, ConstevalGraph,
        run_pre_lowering_passes, SplitGraph, emit_mlir, FinishCompile
<1>2. ASSUME SweepInv, [Next]_vars PROVE [Settles]_vars
  BY <1>1, <1>2
<1> HIDE DEF Settles
<1>3. Spec => [][Settles]_vars
  BY <1>2, Sweeps, PTL DEF Spec
<1> QED BY <1>3 DEF PassesSettle, Settles

-----------------------------------------------------------------------------
(* Nothing that is asserted not to come ever comes.                        *)

LEMMA OrderInit == Init => OrderInv
<1> SUFFICES ASSUME Init PROVE OrderInv
  OBVIOUS
<1>1. PICK k \in UserOps, f \in {"raw", "plain"} :
        graph = {[op |-> k, form |-> f, epoch |-> "Forward"]}
  BY DEF Init
<1>2. \A n \in graph : /\ n.op \notin {"embedding_bw", "layernorm_bw"}
                       /\ n.epoch = "Forward"
                       /\ n.form \in Forms(n.op)
  BY <1>1, UserGradientsAssumption DEF Init
<1>3. \A n \in graph : n.op \in {"log_softmax", "batchnorm", "layernorm"} => n.form = "raw"
  BY <1>2 DEF Forms, Unconditional
<1> QED BY <1>2, <1>3 DEF Init, OrderInv, EarlyStages, AssertionsHold

(* None of the ops the invariant speaks of is made by a rule; autograd     *)
(* makes gradients only.                                                   *)
LEMMA NeverMade ==
  /\ \A k \in RuleOps :
       k \notin {"embedding_bw", "layernorm_bw", "log_softmax", "batchnorm", "layernorm"}
  /\ \A k \in GradientOps : k \notin {"log_softmax", "batchnorm", "layernorm"}
BY DEF RuleOps, GradientOps

(* The reasons for which a rule raises on the nodes it really meets.       *)
LEMMA RaisesUnsupported ==
  ASSUME SweepInv, OrderInv, stage \in DecomposeStages, NEW n \in graph,
         NEW why \in Why(stage, n.op)
  PROVE  why = "unsupported"
<1>1. CASE stage = "POST_INITIAL_GRAPH_PASS"
  BY <1>1 DEF Why, WhyInitial, OrderInv, EarlyStages
<1>2. CASE stage = "OPTIMIZED_GRAPH"
  BY <1>2 DEF Why
<1>3. CASE stage = "POST_AUTOGRAD_PASS"
  BY <1>3 DEF Why, WhyPostAutograd, OrderInv, EarlyStages, Terminal
<1> QED BY <1>1, <1>2, <1>3 DEF DecomposeStages

(* A compilation that stops or fails for lack of support stays in order.   *)
LEMMA OrderFail ==
  ASSUME OrderInv, NEW why, why \notin {"forbidden", "Wrong op type.", "no operands"}, Fail(why)
  PROVE  OrderInv'
BY DEF OrderInv, Fail, EarlyStages, Terminal, AssertionsHold

LEMMA OrderDecompose ==
  ASSUME SweepInv, OrderInv, Decompose
  PROVE  OrderInv'
<1> USE DEF OrderInv
<1>1. /\ stage \in DecomposeStages
      /\ Next_node \in pending /\ Next_node \in graph
      /\ \A m \in pending : Rank(Next_node.epoch) <= Rank(m.epoch)
  BY DecomposeCases DEF SweepInv
<1>2. (stage = "POST_AUTOGRAD_PASS" /\ Rule(stage, Next_node) = {Keep}) => Next_node.op # "layernorm"
  BY <1>1, AlwaysRewritten DEF Rule
<1>3. CASE /\ Rule(stage, Next_node) = {Keep}
           /\ pending' = pending \ {Next_node}
           /\ UNCHANGED <<stage, config, graph, removed, failure>>
  <2>1. stage = "POST_AUTOGRAD_PASS" => \A n \in graph : n.op = "layernorm" => n \in pending'
    BY <1>1, <1>2, <1>3
  <2> QED BY <1>3, <2>1 DEF AssertionsHold
<1>4. ASSUME NEW new \in SUBSET Nodes,
             \A n \in new : n.epoch = Next_node.epoch /\ n.op \in RuleOps,
             graph' = (graph \ {Next_node}) \cup new,
             pending' = pending \ {Next_node}, UNCHANGED <<stage, failure>>
      PROVE  OrderInv'
  <2>1. \A n \in new : n.op \notin {"embedding_bw", "layernorm_bw", "log_softmax", "batchnorm",
                                  "layernorm"}
    BY <1>4, NeverMade
  <2>2. \A n \in graph' : n \in new \/ (n \in graph /\ n # Next_node)
    BY <1>4
  <2>3. stage = "POST_AUTOGRAD_PASS" => \A n \in graph' : n.op = "layernorm" => n \in pending'
    BY <1>1, <1>4, <2>1, <2>2
  <2> QED BY <1>4, <2>1, <2>2, <2>3 DEF AssertionsHold
<1>5. CASE \E why \in Why(stage, Next_node.op) : Fail(why)
  <2>1. Fail("unsupported")
    BY <1>1, <1>5, RaisesUnsupported
  <2> QED BY <2>1, OrderFail
<1>6. CASE /\ Next_node.op = "layernorm_bw" /\ Rule(stage, Next_node) # {Keep}
           /\ \E m \in graph : m.op = "layernorm"
  <2>1. stage = "POST_AUTOGRAD_PASS"
    BY <1>1, <1>6 DEF DecomposeStages, EarlyStages
  <2>2. PICK m \in graph : m.op = "layernorm"
    BY <1>6
  <2>3. m \in pending /\ m.epoch # "Backward" /\ Next_node.epoch = "Backward"
    BY <1>1, <1>6, <2>1, <2>2
  <2>4. Rank(Next_node.epoch) = 3 /\ Rank(m.epoch) \in {1, 2}
    <3>1. m.epoch \in Epochs
      BY <2>2 DEF SweepInv, Nodes
    <3> QED BY <2>3, <3>1 DEF Rank, Epochs
  <2>5. Rank(Next_node.epoch) <= Rank(m.epoch)
    BY <1>1, <2>3
  <2> QED BY <2>4, <2>5
<1> QED BY <1>3, <1>4, <1>5, <1>6, DecomposeCases

(* A stage that hands on part of its graph, with no log_softmax or         *)
(* batchnorm once the Initial pass is over.                                *)
LEMMA OrderReturn ==
  ASSUME OrderInv, NEW next, Return(next), graph' \subseteq graph,
         \/ next \in EarlyStages /\ stage \in EarlyStages
         \/ /\ \A n \in graph : n.op \notin {"log_softmax", "batchnorm"}
            /\ next \notin EarlyStages
            /\ \/ next \notin {"POST_PATTERN_MATCHER", "OPTIMIZED_GRAPH"}
               \/ stage \in EarlyStages \cup {"POST_PATTERN_MATCHER", "OPTIMIZED_GRAPH"}
  PROVE  OrderInv'
BY DEF OrderInv, Return, EarlyStages, Terminal, AssertionsHold

LEMMA OrderNext ==
  ASSUME SweepInv, OrderInv, [Next]_vars
  PROVE  OrderInv'
<1>1. CASE Decompose
  BY <1>1, OrderDecompose
<1>2. CASE Backward
  <2>1. ASSUME NEW new \in SUBSET Nodes,
               \A n \in new : n.epoch = "Backward" /\ n.op \in GradientOps,
               graph' = graph \cup new, stage = "AUTOGRAD", UNCHANGED <<stage, failure>>
        PROVE  OrderInv'
    <3>1. \A n \in new : n.op \notin {"log_softmax", "batchnorm", "layernorm"}
      BY <2>1, NeverMade
    <3> QED BY <2>1, <3>1 DEF OrderInv, EarlyStages, Terminal, AssertionsHold
  <2>2. CASE Fail("unsupported")
    BY <2>2, OrderFail
  <2> QED BY <1>2, <2>1, <2>2, BackwardCases
<1>3. CASE StartSweep \/ StartAutograd
  BY <1>3 DEF StartSweep, StartAutograd, OrderInv, AssertionsHold
<1>4. stage \notin EarlyStages \cup Terminal =>
        \A n \in graph : n.op \notin {"log_softmax", "batchnorm"}
  BY DEF OrderInv
<1>5. CASE InitCompile
  BY <1>5, OrderReturn DEF InitCompile, EarlyStages
<1>6. CASE GenerateInitialGraph
  <2>1. PICK o \in UNION {Op_shape(n.op) : n \in graph} :
          \/ o.does = "raise" /\ Fail(o.why)
          \/ o.does = "keep" /\ Return("POST_INITIAL_GRAPH_PASS") /\ UNCHANGED graph
    BY <1>6 DEF GenerateInitialGraph
  <2>2. PICK n \in graph : o \in Op_shape(n.op)
    BY <2>1
  <2>3. o.does = "raise" => o.why = "unsupported"
    <3>1. n.op \in OpNames
      BY <2>2 DEF SweepInv, Nodes
    <3>2. o = Keep \/ o = Raise("unsupported")
      BY <2>2, <3>1, ShapeSound DEF Unsupported
    <3> QED BY <3>2 DEF Keep, Raise
  <2>4. CASE o.does = "raise" /\ Fail(o.why)
    BY <2>3, <2>4, OrderFail
  <2>5. CASE Return("POST_INITIAL_GRAPH_PASS") /\ UNCHANGED graph
    BY <1>6, <2>5, OrderReturn DEF GenerateInitialGraph, EarlyStages
  <2> QED BY <2>1, <2>4, <2>5
<1>7. CASE run_post_initial_graph_passes
  <2>1. \A n \in graph : Rule(stage, n) = {Keep}
    BY <1>7 DEF run_post_initial_graph_passes, PassDone, SweepInv, DecomposeStages
  <2>2. \A n \in graph : n.op \notin {"log_softmax", "batchnorm"}
    BY <1>7, <2>1, AlwaysRewritten DEF run_post_initial_graph_passes, Rule, OrderInv
  <2> QED BY <1>7, <2>2, OrderReturn
          DEF run_post_initial_graph_passes, EarlyStages, AfterOptimization
<1>8. CASE PatternMatcher
  BY <1>4, <1>8, OrderReturn DEF PatternMatcher, EarlyStages, Terminal, AfterOptimization
<1>9. CASE run_post_optimize_decompose_graph_passes
  BY <1>4, <1>9, OrderReturn
     DEF run_post_optimize_decompose_graph_passes, EarlyStages, Terminal, AfterOptimization
<1>10. CASE EndAutograd
  <2>1. Return("POST_AUTOGRAD_PASS") /\ stage = "AUTOGRAD"
    BY <1>10 DEF EndAutograd
  <2>2. PICK again \in {{}} \cup IF config.enable_recompute
                               THEN {{n \in graph : n.epoch = "Forward"}} ELSE {} :
          graph' = graph \cup {[n EXCEPT !.epoch = "Recompute"] : n \in again}
    BY <1>10 DEF EndAutograd
  <2>3. \A n \in again : n \in graph /\ n.epoch = "Forward" /\ n \in Nodes
    BY <2>2 DEF SweepInv
  <2>4. \A n \in Nodes : /\ [n EXCEPT !.epoch = "Recompute"].op = n.op
                         /\ [n EXCEPT !.epoch = "Recompute"].form = n.form
                         /\ [n EXCEPT !.epoch = "Recompute"].epoch = "Recompute"
    BY DEF Nodes
  <2>5. \A c \in graph' : c \in graph \/ \E n \in graph :
          /\ n.epoch = "Forward"
          /\ c.op = n.op /\ c.form = n.form /\ c.epoch = "Recompute"
    <3> SUFFICES ASSUME NEW c \in graph', c \notin graph
                 PROVE  \E n \in graph : /\ n.epoch = "Forward"
                                         /\ c.op = n.op /\ c.form = n.form /\ c.epoch = "Recompute"
      OBVIOUS
    <3>1. PICK n \in again : c = [n EXCEPT !.epoch = "Recompute"]
      BY <2>2
    <3> QED BY <2>3, <2>4, <3>1
  <2>6. \A c \in graph' : /\ c.op \notin {"log_softmax", "batchnorm"}
                          /\ c.op = "layernorm" => c.form = "raw" /\ c.epoch # "Backward"
                          /\ c.op = "layernorm_bw" => c.epoch = "Backward"
    <3>1. \A n \in graph : n.op \notin {"log_softmax", "batchnorm"}
      BY <1>4, <2>1 DEF EarlyStages, Terminal
    <3>2. \A n \in graph : /\ n.op = "layernorm" => n.form = "raw" /\ n.epoch # "Backward"
                           /\ n.op = "layernorm_bw" => n.epoch = "Backward"
      BY DEF OrderInv
    <3> QED BY <2>5, <3>1, <3>2
  <2>7. stage' \in {"STOPPED", "POST_AUTOGRAD_PASS"} /\ pending' = {} /\ removed' = TRUE
    BY <2>1 DEF Return
  <2>8. AssertionsHold'
    BY <2>1 DEF OrderInv, Return, AssertionsHold
  <2> QED BY <2>6, <2>7, <2>8 DEF OrderInv, EarlyStages
<1>11. CASE run_post_autograd_graph_passes
  BY <1>4, <1>11, OrderReturn DEF run_post_autograd_graph_passes, EarlyStages, Terminal
<1>12. CASE ConstevalGraph
  BY <1>4, <1>12, OrderReturn DEF ConstevalGraph, EarlyStages, Terminal
<1>13. CASE run_pre_lowering_passes
  BY <1>4, <1>13, OrderReturn DEF run_pre_lowering_passes, EarlyStages, Terminal
<1>14. CASE SplitGraph \/ FinishCompile
  BY <1>4, <1>14, OrderReturn DEF SplitGraph, FinishCompile, EarlyStages, Terminal
<1>15. CASE emit_mlir
  <2>1. CASE Return("FINISH_COMPILE") /\ UNCHANGED graph
    BY <1>4, <1>15, <2>1, OrderReturn DEF emit_mlir, EarlyStages, Terminal
  <2>2. CASE Fail("no handler")
    BY <2>2, OrderFail
  <2> QED BY <1>15, <2>1, <2>2 DEF emit_mlir
<1>16. CASE UNCHANGED vars
  BY <1>16 DEF vars, OrderInv, AssertionsHold
<1> QED BY <1>1, <1>2, <1>3, <1>5, <1>6, <1>7, <1>8, <1>9, <1>10, <1>11, <1>12, <1>13, <1>14,
        <1>15, <1>16 DEF Next

(* No op reaches a function that its authors assert it never reaches: no   *)
(* embedding_bw is decomposed, no log_softmax or batchnorm outlives the    *)
(* Initial pass, no namespace is called for another type, and layernorm_bw *)
(* waits for the layernorm whose results it takes apart (nn.py).           *)
THEOREM AssertionsAlwaysHold == Spec => []AssertionsHold
<1>1. OrderInv => AssertionsHold
  BY DEF OrderInv
<1> QED BY <1>1, OrderInit, OrderNext, Sweeps, PTL DEF Spec
=============================================================================
