--------------------------- MODULE CompiledModel ---------------------------
(***************************************************************************)
(* CompiledModel (forge/forge/compiled_graph_state.py) on top of           *)
(* ModelState::run_program (forge/csrc/runtime/state.cpp): one compiled    *)
(* model, the tensors it keeps on the host and on the device, and the      *)
(* calls its user makes: forward, loss.backward(), backward, optimizer     *)
(* steps on either side, host updates and device reconfiguration.          *)
(*                                                                         *)
(* Contents are stamps.  Everything a forward pass touches carries the     *)
(* number of that call; a gradient produced by backward carries the number *)
(* of that backward pass; a weight carries the version of its last writer. *)
(***************************************************************************)
EXTENDS TensorStore, Sequences

CONSTANTS
  Names,            \* names in the tensor pool
  Params,           \* named_parameters() with requires_grad, in order
  Persistent,       \* [Programs -> Seq(Names)]: constants, then parameters
  Aliased,          \* weights the optimizer graph writes (aliased_outputs)
  Matches,          \* <<p, q>>: "p in name" holds of the gradient output of q
  NumInputs,        \* inputs of the forward program
  InputCounts,      \* numbers of inputs a caller passes
  BwdInputs,        \* forward inputs the backward program takes again
  NumIntermediates, \* forward outputs kept for the backward program
  NumGradInputs,    \* gradient inputs of the backward program
  Modes,            \* compile options explored
  CrossWrites,      \* the user also changes the host copy of weights that
                    \* the other side owns: torch writes while the device
                    \* copy is in use, update_host_weights with a torch
                    \* optimizer
  ReconfigureAnytime, \* the user also reconfigures with tensors on device
  MaxCalls, MaxBackwards, MaxVersion, MaxGen   \* bounds of the model

Trainable == {Params[i] : i \in DOMAIN Params}

InProgram(pg) == {Persistent[pg][i] : i \in DOMAIN Persistent[pg]}

ASSUME ConstantsAssumption ==
  /\ Params \in Seq(Names)
  /\ Persistent \in [Programs -> Seq(Names)]
  /\ Trainable \subseteq InProgram("fwd")
  /\ Aliased = Trainable
  /\ Aliased \subseteq InProgram("opt")
  /\ Matches \subseteq Trainable \X Trainable
  /\ NumInputs \in Nat
  /\ InputCounts \subseteq Nat
  /\ BwdInputs \subseteq 1..NumInputs
  /\ NumIntermediates \in Nat
  /\ NumGradInputs \in Nat
  /\ Modes \subseteq {"inference", "host", "device"}
  /\ CrossWrites \in BOOLEAN
  /\ ReconfigureAnytime \in BOOLEAN
  /\ MaxCalls \in Nat /\ MaxBackwards \in Nat
  /\ MaxVersion \in Nat /\ MaxGen \in Nat

VARIABLES
  mode,        \* "inference"; training with the optimizer on "host"/"device"
  mesh,        \* the mesh device
  pool,        \* tensor_pool, shared by the program states
  inputs,      \* self.inputs
  inter,       \* self.intermediates
  gradIn,      \* self.gradient_inputs
  gradOut,     \* self.gradient_outputs
  progOut,     \* stamp of each program's outputs, Null when cleared
  returned,    \* calls whose outputs the user may still use in a loss
  paramGrad,   \* .grad of the torch parameters: what was accumulated
  calls, backwards, version,  \* stamps handed out so far
  result,      \* "ok" or "error": how the last call ended
  fwd,         \* history: the last forward call and the weights it ran with
  written,     \* history: the version last written to each weight
  gradAt       \* history: the weights gradOut was computed with

vars == <<mode, mesh, pool, inputs, inter, gradIn, gradOut, progOut,
          returned, paramGrad, calls, backwards, version, result, fwd, written, gradAt>>

training == mode # "inference"

optimizer_on_device == mode = "device"

WeightsOf(pl) == [p \in Trainable |-> pl[p].dev]

-----------------------------------------------------------------------------
(* ModelState::run_program.  The activation inputs of a run are given as   *)
(* groups of tensors; S is the part of the group ts that is passed, and    *)
(* base the value of input_idx when the loop reaches the group.  input_idx *)
(* advances only over the tensors the loop has to push.                    *)

ToPush(ts, S) == {i \in S : ~OnDevice(ts[i])}

(* Fault: the slots are taken to be counted from 1.                        *)
PushGroupFromOne(pg, ts, S, base, g) ==
  [i \in DOMAIN ts |->
     IF i \in ToPush(ts, S)
     THEN ToDevice(ts[i],
            GetLayout(pg, base + Cardinality({k \in ToPush(ts, S) : k < i}) - 1), g)
     ELSE ts[i]]

PushGroup(pg, ts, S, base, g) ==
  [i \in DOMAIN ts |->
     IF i \in ToPush(ts, S)
     THEN ToDevice(ts[i],
            GetLayout(pg, base + Cardinality({k \in ToPush(ts, S) : k < i})), g)
     ELSE ts[i]]

(* Position of n among the persistent inputs of pg, counted from 0.        *)
SlotOf(pg, n) ==
  (CHOOSE i \in DOMAIN Persistent[pg] : Persistent[pg][i] = n) - 1

(* Fault: input_idx restarts at 0 for the persistent inputs.               *)
PushPersistentFromZero(pg, pl, base, g) ==
  [n \in Names |->
     IF n \in InProgram(pg) /\ ~OnDevice(pl[n])
     THEN ToDevice(pl[n], GetLayout(pg, SlotOf(pg, n)), g)
     ELSE pl[n]]

PushPersistent(pg, pl, base, g) ==
  [n \in Names |->
     IF n \in InProgram(pg) /\ ~OnDevice(pl[n])
     THEN ToDevice(pl[n], GetLayout(pg, base + SlotOf(pg, n)), g)
     ELSE pl[n]]

(* verify_input_descs for one group of activation inputs.                  *)
Fits(ts, S, n) == Cardinality(S) = n /\ \A i \in S : ts[i].fits

-----------------------------------------------------------------------------
InitTensor == FromHost(0, TRUE)

Init ==
  /\ mode \in Modes
  /\ mesh = [open |-> FALSE, gen |-> 0]
  /\ pool = [n \in Names |-> InitTensor]
  /\ inputs = <<>>
  /\ inter = <<>>
  /\ gradIn = [i \in 1..NumGradInputs |-> Null]
  /\ gradOut = <<>>
  /\ progOut = [pg \in Programs |-> Null]
  /\ returned = {}
  /\ paramGrad = [p \in Trainable |-> {}]
  /\ calls = 0 /\ backwards = 0 /\ version = 0
  /\ result = "ok"
  /\ fwd = [call |-> 0, ok |-> FALSE, ver |-> 0,
            weights |-> [p \in Trainable |-> 0]]
  /\ written = [p \in Trainable |-> 0]
  /\ gradAt = [p \in Trainable |-> 0]

(* Fault: the weights stay on the device.                                  *)
WeightsStay == pool

(* remove_weights_from_device, called when the optimizer runs on the host. *)
WeightsForCall ==
  [n \in Names |->
     IF mode = "host" /\ n \in Trainable THEN DetachFromDevice(pool[n])
                                         ELSE pool[n]]

(* CompiledModel.__call__ with n inputs that fit the program or not.       *)
Call(n, fits) ==
  LET m    == OpenIfClosed(mesh)
      new  == [i \in 1..n |-> FromHost(calls + 1, fits)]
      base == Cardinality(ToPush(new, 1..n))
      good == Fits(new, 1..n, NumInputs)
  IN
  /\ calls < MaxCalls
  /\ calls' = calls + 1
  /\ mesh' = m
  /\ inputs' = PushGroup("fwd", new, 1..n, 0, m.gen)
  /\ pool' = PushPersistent("fwd", WeightsForCall, base, m.gen)
  /\ fwd' = [call |-> calls + 1, ok |-> good, ver |-> version,
             weights |-> WeightsOf(pool')]
  /\ \/ /\ good
        /\ progOut' = [progOut EXCEPT !["fwd"] = calls + 1]
        /\ inter' = [i \in 1..NumIntermediates |-> FromRuntime(calls + 1, m.gen)]
        /\ returned' = IF training THEN returned \cup {calls + 1} ELSE returned
        /\ result' = "ok"
     \/ /\ ~good
        /\ progOut' = [progOut EXCEPT !["fwd"] = Null]
        /\ result' = "error"
        /\ UNCHANGED <<inter, returned>>
  /\ UNCHANGED <<mode, gradIn, gradOut, paramGrad, backwards, version,
                 written, gradAt>>

(* loss.backward() in torch: it fires tie_grad_fn for the outputs S of the *)
(* call c the loss was computed from.                                      *)
LossBackward(c, S) ==
  /\ S # {}
  /\ gradIn' = [i \in 1..NumGradInputs |->
                  IF i \in S THEN FromHost(c, TRUE) ELSE gradIn[i]]
  /\ result' = "ok"
  /\ UNCHANGED <<mode, returned, mesh, pool, inputs, inter, gradOut, progOut, paramGrad,
                 calls, backwards, version, fwd, written, gradAt>>

-----------------------------------------------------------------------------
(* CompiledModel.backward.                                                 *)

(* The assertions and the list indexing before anything is run.            *)
BackwardReady ==
  /\ training
  /\ \A i \in 1..NumGradInputs : gradIn[i] # Null
  /\ BwdInputs \subseteq DOMAIN inputs

BackwardFits ==
  /\ Fits(inter, DOMAIN inter, NumIntermediates)
  /\ Fits(inputs, BwdInputs, Cardinality(BwdInputs))

(* Fault: the weights are pushed again before the backward program runs.   *)
RunBackwardRepushed ==
  LET m == OpenIfClosed(mesh)
      G == 1..NumGradInputs
      g == Cardinality(ToPush(gradIn, G))
      i == Cardinality(ToPush(inter, DOMAIN inter))
      x == Cardinality(ToPush(inputs, BwdInputs))
  IN
  /\ mesh' = m
  /\ gradIn' = PushGroup("bwd", gradIn, G, 0, m.gen)
  /\ inter' = PushGroup("bwd", inter, DOMAIN inter, g, m.gen)
  /\ inputs' = PushGroup("bwd", inputs, BwdInputs, g + i, m.gen)
  /\ pool' = PushPersistent("bwd", WeightsForCall, g + i + x, m.gen)

(* run_program(Backward, [*gradient_inputs, *intermediates, *inputs]).     *)
RunBackward ==
  LET m == OpenIfClosed(mesh)
      G == 1..NumGradInputs
      g == Cardinality(ToPush(gradIn, G))
      i == Cardinality(ToPush(inter, DOMAIN inter))
      x == Cardinality(ToPush(inputs, BwdInputs))
  IN
  /\ mesh' = m
  /\ gradIn' = PushGroup("bwd", gradIn, G, 0, m.gen)
  /\ inter' = PushGroup("bwd", inter, DOMAIN inter, g, m.gen)
  /\ inputs' = PushGroup("bwd", inputs, BwdInputs, g + i, m.gen)
  /\ pool' = PushPersistent("bwd", pool, g + i + x, m.gen)

Gradients(b, g) == [j \in DOMAIN Params |-> FromRuntime(b, g)]

BackwardRefused ==
  /\ ~BackwardReady
  /\ result' = "error"
  /\ UNCHANGED <<mode, returned, mesh, pool, inputs, inter, gradIn, gradOut, progOut,
                 paramGrad, calls, backwards, version, fwd, written, gradAt>>

BackwardMismatch ==
  /\ BackwardReady
  /\ ~BackwardFits
  /\ RunBackward
  /\ progOut' = [progOut EXCEPT !["bwd"] = Null]
  /\ result' = "error"
  /\ UNCHANGED <<mode, returned, gradOut, paramGrad, calls, backwards, version, fwd,
                 written, gradAt>>

(* Optimizer on the device: the gradients stay there; accumulating onto    *)
(* gradients that no step has consumed yet is refused after the run.       *)
KeepGradients ==
  /\ optimizer_on_device
  /\ UNCHANGED paramGrad
  /\ \/ /\ gradOut = <<>>
        /\ gradOut' = Gradients(backwards', mesh'.gen)
        /\ gradAt' = WeightsOf(pool')
        /\ result' = "ok"
     \/ /\ gradOut # <<>>
        /\ result' = "error"
        /\ UNCHANGED <<gradOut, gradAt>>

(* Optimizer on the host: the gradient of q is added to the .grad of every *)
(* parameter whose name occurs in the name of q's gradient output.         *)
AccumulateGradients ==
  /\ ~optimizer_on_device
  /\ gradOut' = [j \in DOMAIN Params |->
                   IF \E p \in Trainable : <<p, Params[j]>> \in Matches
                   THEN ToTorch(Gradients(backwards', mesh'.gen)[j])
                   ELSE Gradients(backwards', mesh'.gen)[j]]
  /\ paramGrad' = [p \in Trainable |-> paramGrad[p] \cup
                     {<<q, backwards'>> : q \in {r \in Trainable : <<p, r>> \in Matches}}]
  /\ gradAt' = WeightsOf(pool')
  /\ result' = "ok"

Backward ==
  /\ BackwardReady
  /\ BackwardFits
  /\ backwards < MaxBackwards
  /\ backwards' = backwards + 1
  /\ RunBackward
  /\ progOut' = [progOut EXCEPT !["bwd"] = backwards + 1]
  /\ KeepGradients \/ AccumulateGradients
  /\ UNCHANGED <<mode, returned, calls, version, fwd, written>>

-----------------------------------------------------------------------------
(* CompiledModel.step, reached through Optimizer.step.                     *)

RunOptimizer ==
  LET m == OpenIfClosed(mesh)
      base == Cardinality(ToPush(gradOut, DOMAIN gradOut))
  IN
  /\ mesh' = m
  /\ pool' = [n \in Names |->
        LET t == PushPersistent("opt", pool, base, m.gen)[n] IN
        IF n \in Aliased /\ gradOut # <<>>
        THEN ReplaceHandle(t, FromRuntime(version + 1, m.gen))
        ELSE t]

(* Fault: step() leaves gradient_outputs in place.                         *)
StepKeepsGradients ==
  /\ optimizer_on_device
  /\ gradOut # <<>>
  /\ version < MaxVersion
  /\ RunOptimizer
  /\ version' = version + 1
  /\ written' = [p \in Trainable |-> version + 1]
  /\ progOut' = [progOut EXCEPT !["opt"] = version + 1]
  /\ result' = "ok"
  /\ UNCHANGED <<mode, returned, inputs, inter, gradIn, gradOut, paramGrad, calls,
                 backwards, fwd, gradAt>>

Step ==
  /\ optimizer_on_device
  /\ gradOut # <<>>
  /\ version < MaxVersion
  /\ RunOptimizer
  /\ version' = version + 1
  /\ written' = [p \in Trainable |-> version + 1]
  /\ progOut' = [progOut EXCEPT !["opt"] = version + 1]
  /\ gradOut' = <<>>
  /\ result' = "ok"
  /\ UNCHANGED <<mode, returned, inputs, inter, gradIn, paramGrad, calls, backwards, fwd,
                 gradAt>>

(* step() without gradients: the persistent inputs are pushed, the outputs *)
(* cleared, and then the number of inputs is found not to match.           *)
StepMismatch ==
  /\ optimizer_on_device
  /\ gradOut = <<>>
  /\ RunOptimizer
  /\ progOut' = [progOut EXCEPT !["opt"] = Null]
  /\ result' = "error"
  /\ UNCHANGED <<mode, returned, inputs, inter, gradIn, gradOut, paramGrad, calls,
                 backwards, version, fwd, written, gradAt>>

StepRefused ==
  /\ ~optimizer_on_device
  /\ result' = "error"
  /\ UNCHANGED <<mode, returned, mesh, pool, inputs, inter, gradIn, gradOut, progOut,
                 paramGrad, calls, backwards, version, fwd, written, gradAt>>

-----------------------------------------------------------------------------
(* update_host_weights walks the parameters in order and stops at the      *)
(* first one that is not on the device.                                    *)
HostUpdated ==
  {Params[i] : i \in {k \in DOMAIN Params :
                        \A j \in 1..k : OnDevice(pool[Params[j]])}}

UpdateHostWeights ==
  /\ CrossWrites \/ mode # "host"
  /\ pool' = [n \in Names |-> IF n \in HostUpdated THEN UpdateHostData(pool[n])
                                                   ELSE pool[n]]
  /\ result' = IF HostUpdated = Trainable THEN "ok" ELSE "error"
  /\ UNCHANGED <<mode, returned, mesh, inputs, inter, gradIn, gradOut, progOut, paramGrad,
                 calls, backwards, version, fwd, written, gradAt>>

(* The torch side writes the parameters in S: they are the host copies of  *)
(* the pool tensors.                                                       *)
HostWrite(S) ==
  /\ S # {}
  /\ version < MaxVersion
  /\ version' = version + 1
  /\ pool' = [n \in Names |-> IF n \in S THEN [pool[n] EXCEPT !.host = version + 1]
                                         ELSE pool[n]]
  /\ written' = [p \in Trainable |-> IF p \in S THEN version + 1 ELSE written[p]]
  /\ result' = "ok"
  /\ UNCHANGED <<mode, returned, mesh, inputs, inter, gradIn, gradOut, progOut, paramGrad,
                 calls, backwards, fwd, gradAt>>

(* step() of a torch optimizer; it updates the parameters with a gradient. *)
TorchStep ==
  /\ mode = "host"
  /\ HostWrite({p \in Trainable : paramGrad[p] # {}})

ZeroGrad ==
  /\ mode = "host"
  /\ paramGrad' = [p \in Trainable |-> {}]
  /\ result' = "ok"
  /\ UNCHANGED <<mode, returned, mesh, pool, inputs, inter, gradIn, gradOut, progOut, calls,
                 backwards, version, fwd, written, gradAt>>

(* load_state_dict() and the like.                                         *)
LoadWeights ==
  /\ CrossWrites \/ mode = "host" \/ \A p \in Trainable : ~OnDevice(pool[p])
  /\ HostWrite(Trainable)

AllOnHost == \A n \in Names : ~OnDevice(pool[n])

ConfigureDevices ==
  /\ ReconfigureAnytime \/ (AllOnHost /\ calls = 0)
  /\ mesh.gen + 1 < MaxGen
  /\ mesh' = Configure(mesh)
  /\ result' = "ok"
  /\ UNCHANGED <<mode, returned, pool, inputs, inter, gradIn, gradOut, progOut, paramGrad,
                 calls, backwards, version, fwd, written, gradAt>>

Next ==
  \/ \E n \in InputCounts, fits \in BOOLEAN : Call(n, fits)
  \/ \E c \in returned, S \in SUBSET (1..NumGradInputs) : LossBackward(c, S)
  \/ BackwardRefused
  \/ BackwardMismatch
  \/ Backward
  \/ Step
  \/ StepMismatch
  \/ StepRefused
  \/ UpdateHostWeights
  \/ TorchStep
  \/ ZeroGrad
  \/ LoadWeights
  \/ ConfigureDevices

Spec == Init /\ [][Next]_vars

-----------------------------------------------------------------------------
(* The shapes of the state.                                                *)
TypeOK ==
  /\ mode \in Modes
  /\ mesh \in Mesh
  /\ pool \in [Names -> Tensor]
  /\ inputs \in Seq(Tensor)
  /\ inter \in Seq(Tensor)
  /\ gradIn \in [1..NumGradInputs -> Tensor \cup {Null}]
  /\ gradOut \in Seq(Tensor)
  /\ progOut \in [Programs -> Nat \cup {Null}]
  /\ returned \subseteq Nat
  /\ paramGrad \in [Trainable -> SUBSET (Trainable \X Nat)]
  /\ calls \in Nat /\ backwards \in Nat /\ version \in Nat
  /\ result \in {"ok", "error"}
  /\ fwd \in [call : Nat, ok : BOOLEAN, ver : Nat,
               weights : [Trainable -> Nat \cup {Null}]]
  /\ written \in [Trainable -> Nat]
  /\ gradAt \in [Trainable -> Nat \cup {Null}]

(* The copy of a weight that the next forward pass will use holds the      *)
(* version last written, whichever of torch and the device wrote it.       *)
WeightsCoherent ==
  \A p \in Trainable :
     written[p] = IF mode = "host" \/ ~OnDevice(pool[p]) THEN pool[p].host
                                                          ELSE pool[p].dev

(* Host and device copies together behave like a single store of weights:  *)
(* every forward pass (__call__) runs with the values last written by      *)
(* optimizer steps or by torch.                                            *)
Store == INSTANCE WeightStore
           WITH Weights <- Trainable, value <- written,
                reads <- calls, seen <- fwd.weights

ReadsLatestWeights == Store!Spec

(* backward() whose gradients all come from the loss of the last forward   *)
(* call also takes its intermediates and inputs from that call, and runs   *)
(* with the weights of that call unless a device step came in between - a  *)
(* torch optimizer that stepped early does not disturb it.                 *)
BackwardCoherent ==
  [][ /\ backwards' # backwards
      /\ fwd.ok
      /\ \A i \in 1..NumGradInputs : gradIn[i].host = fwd.call
      => /\ \A i \in DOMAIN inter' : inter'[i].dev = fwd.call
         /\ \A i \in BwdInputs : inputs'[i].dev = fwd.call
         /\ \/ WeightsOf(pool') = fwd.weights
            \/ mode = "device" /\ version # fwd.ver ]_vars

(* With the optimizer on the device, the gradients waiting for step() were *)
(* computed with the weights that step() will update: no step applies a    *)
(* gradient twice or one computed before an earlier step.                  *)
GradientsMatchWeights ==
  optimizer_on_device /\ gradOut # <<>> => gradAt = WeightsOf(pool)

(* What the forward program pushed has the layout of its own input slot:   *)
(* the activation inputs first, then the persistent inputs in order.       *)
ForwardLayout ==
  /\ \A n \in Names : pool[n].layout.pg = "fwd" =>
       pool[n].layout.idx = NumInputs + SlotOf("fwd", n)
  /\ \A i \in DOMAIN inputs : inputs[i].layout.pg = "fwd" =>
       inputs[i].layout.idx = i - 1

(* A program only runs on persistent tensors whose handles belong to the   *)
(* mesh device that is open.                                               *)
RunsOnLiveHandles ==
  [][ \A pg \in Programs :
        progOut'[pg] \notin {progOut[pg], Null} =>
          \A n \in InProgram(pg) : pool'[n].gen = mesh'.gen ]_vars

(* update_host_weights that returns normally leaves every torch parameter  *)
(* with the version last written.                                          *)
HostSeesWeights ==
  [][ UpdateHostWeights /\ result' = "ok" =>
        \A p \in Trainable : pool'[p].host = written[p] ]_vars

-----------------------------------------------------------------------------
(* What comments and assertions of the source say of the program, and the  *)
(* program does not do.                                                    *)

(* "Gradients not provided for backward pass.": backward() refuses to run *)
(* with gradients of an earlier forward call that an earlier backward()    *)
(* has already consumed.                                                   *)
FreshGradients ==
  [][ backwards' # backwards =>
        \A i \in 1..NumGradInputs :
          gradIn[i].host = fwd.call \/ ~OnDevice(gradIn[i]) ]_vars

(* "there is an ordering requirement for the activation inputs and the     *)
(* persistent inputs": a persistent tensor is pushed with the layout of    *)
(* its slot, after all the activation inputs of the program.               *)
NumActivations(pg) ==
  CASE pg = "fwd" -> NumInputs
    [] pg = "bwd" -> NumGradInputs + NumIntermediates + Cardinality(BwdInputs)
    [] pg = "opt" -> Len(Params)

OwnLayout ==
  \A n \in Names, pg \in Programs : pool[n].layout.pg = pg =>
    pool[n].layout.idx = NumActivations(pg) + SlotOf(pg, n)

(* "Accumulate gradients in the PyTorch module": .grad of a parameter      *)
(* accumulates gradients of that parameter only.                           *)
OwnGradients ==
  \A p \in Trainable : \A x \in paramGrad[p] : x[1] = p
=============================================================================
