------------------------ MODULE CompiledModel_proofs ------------------------
(***************************************************************************)
(* Proofs about CompiledModel for every set of weights, every program      *)
(* signature and every bound.                                              *)
(***************************************************************************)
EXTENDS CompiledModel, FiniteSetTheorems, TLAPS

-----------------------------------------------------------------------------
(* Facts about the operators of run_program.                               *)

(* A subset of an interval has a natural cardinality.                      *)
LEMMA CardinalityNat ==
  ASSUME NEW n \in Nat, NEW T \in SUBSET (1..n)
  PROVE  Cardinality(T) \in Nat
<1>1. IsFiniteSet(1..n)
  BY FS_Interval
<1>2. IsFiniteSet(T)
  BY <1>1, FS_Subset
<1> QED
  BY <1>2, FS_CardinalityType

(* A function on an initial interval is a sequence.                        *)
LEMMA IntervalSeq ==
  ASSUME NEW T, NEW n \in Nat, NEW f \in [1..n -> T]
  PROVE  f \in Seq(T)
OBVIOUS

(* to_device keeps a tensor a tensor.                                      *)
LEMMA ToDeviceType ==
  ASSUME NEW t \in Tensor, NEW pg \in Programs, NEW i \in Nat, NEW g \in Nat
  PROVE  ToDevice(t, GetLayout(pg, i), g) \in Tensor
BY DEF ToDevice, GetLayout, Tensor, Layout

(* The activation loop of run_program maps tensors to tensors.             *)
LEMMA PushGroupType ==
  ASSUME NEW pg \in Programs, NEW n \in Nat, NEW ts \in [1..n -> Tensor],
         NEW S \in SUBSET (1..n), NEW base \in Nat, NEW g \in Nat
  PROVE  PushGroup(pg, ts, S, base, g) \in [1..n -> Tensor]
<1> DEFINE before(i) == {k \in ToPush(ts, S) : k < i}
<1> SUFFICES ASSUME NEW i \in 1..n
             PROVE  PushGroup(pg, ts, S, base, g)[i] \in Tensor
  BY DEF PushGroup
<1>1. Cardinality(before(i)) \in Nat
  BY CardinalityNat DEF ToPush
<1>2. ToDevice(ts[i], GetLayout(pg, base + Cardinality(before(i))), g) \in Tensor
  BY <1>1, ToDeviceType
<1> QED
  BY <1>2 DEF PushGroup

(* The slot of a persistent input of a program is a natural number.        *)
LEMMA SlotOfNat ==
  ASSUME NEW pg \in Programs, NEW n \in InProgram(pg)
  PROVE  SlotOf(pg, n) \in Nat
<1>1. Persistent[pg] \in Seq(Names)
  BY ConstantsAssumption
<1>2. \E i \in DOMAIN Persistent[pg] : Persistent[pg][i] = n
  BY DEF InProgram
<1>3. PICK i \in DOMAIN Persistent[pg] : SlotOf(pg, n) = i - 1
  BY <1>2 DEF SlotOf
<1> QED
  BY <1>1, <1>3

(* The persistent loop of run_program maps a pool to a pool.               *)
LEMMA PushPersistentType ==
  ASSUME NEW pg \in Programs, NEW pl \in [Names -> Tensor],
         NEW base \in Nat, NEW g \in Nat
  PROVE  PushPersistent(pg, pl, base, g) \in [Names -> Tensor]
<1> SUFFICES ASSUME NEW n \in Names
             PROVE  PushPersistent(pg, pl, base, g)[n] \in Tensor
  BY DEF PushPersistent
<1>1. CASE n \in InProgram(pg)
  <2>1. base + SlotOf(pg, n) \in Nat
    BY <1>1, SlotOfNat
  <2>2. ToDevice(pl[n], GetLayout(pg, base + SlotOf(pg, n)), g) \in Tensor
    BY <2>1, ToDeviceType
  <2> QED
    BY <2>2 DEF PushPersistent
<1>2. CASE n \notin InProgram(pg)
  BY <1>2 DEF PushPersistent
<1> QED
  BY <1>1, <1>2

(* Opening the device, if need be, leaves a well-formed mesh.              *)
LEMMA OpenType ==
  ASSUME NEW m \in Mesh
  PROVE  OpenIfClosed(m) \in Mesh /\ OpenIfClosed(m).gen \in Nat
BY DEF OpenIfClosed, Mesh

(* Fresh tensors are tensors.                                              *)
LEMMA FreshTensors ==
  ASSUME NEW v \in Nat, NEW b \in BOOLEAN, NEW g \in Nat
  PROVE  FromHost(v, b) \in Tensor /\ FromRuntime(v, g) \in Tensor
BY DEF FromHost, FromRuntime, Tensor, Layout, NoLayout, OutLayout

(* The other operations on tensors keep them tensors.                      *)
LEMMA TensorOperations ==
  ASSUME NEW t \in Tensor, NEW u \in Tensor, NEW v \in Nat
  PROVE  /\ DetachFromDevice(t) \in Tensor
         /\ ToTorch(t) \in Tensor
         /\ UpdateHostData(t) \in Tensor
         /\ ReplaceHandle(t, u) \in Tensor
         /\ [t EXCEPT !.host = v] \in Tensor
<1>1. NoLayout \in Layout
  BY DEF NoLayout, Layout
<1>2. DetachFromDevice(t) \in Tensor
  BY <1>1 DEF DetachFromDevice, Tensor
<1>3. ToTorch(t) \in Tensor /\ UpdateHostData(t) \in Tensor
  BY DEF ToTorch, UpdateHostData, Tensor
<1>4. ReplaceHandle(t, u) \in Tensor
  BY DEF ReplaceHandle, Tensor
<1>5. [t EXCEPT !.host = v] \in Tensor
  BY DEF Tensor
<1> QED
  BY <1>2, <1>3, <1>4, <1>5

(* The trainable weights are names of the pool.                            *)
LEMMA TrainableNames == Trainable \subseteq Names
BY ConstantsAssumption DEF Trainable

(* The weights of a pool, as seen by a program.                            *)
LEMMA WeightsOfType ==
  ASSUME NEW pl \in [Names -> Tensor]
  PROVE  WeightsOf(pl) \in [Trainable -> Nat \cup {Null}]
BY TrainableNames DEF WeightsOf, Tensor

-----------------------------------------------------------------------------
(* Type correctness, one lemma per call.                                   *)

(* The initial state is well typed.                                        *)
LEMMA InitType == Init => TypeOK
<1> SUFFICES ASSUME Init PROVE TypeOK
  OBVIOUS
<1>1. InitTensor \in Tensor
  BY FreshTensors DEF InitTensor
<1>2. mesh \in Mesh
  BY DEF Init, Mesh
<1>3. inputs \in Seq(Tensor) /\ inter \in Seq(Tensor) /\ gradOut \in Seq(Tensor)
  BY DEF Init
<1> QED
  BY <1>1, <1>2, <1>3 DEF Init, TypeOK

(* __call__ keeps the state well typed, whether it succeeds or fails.      *)
LEMMA CallType ==
  ASSUME TypeOK, NEW n \in InputCounts, NEW b \in BOOLEAN, Call(n, b)
  PROVE  TypeOK'
<1> DEFINE m == OpenIfClosed(mesh)
           new == [i \in 1..n |-> FromHost(calls + 1, b)]
           base == Cardinality(ToPush(new, 1..n))
<1>1. n \in Nat
  BY ConstantsAssumption
<1>2. mesh' \in Mesh /\ m.gen \in Nat
  BY OpenType DEF TypeOK, Call
<1>3. calls + 1 \in Nat
  BY DEF TypeOK
<1>4. new \in [1..n -> Tensor]
  BY <1>3, FreshTensors
<1>5. base \in Nat
  BY <1>1, CardinalityNat DEF ToPush
<1>6. inputs' \in Seq(Tensor)
  <2>1. inputs' = PushGroup("fwd", new, 1..n, 0, m.gen)
    BY DEF Call
  <2>2. inputs' \in [1..n -> Tensor]
    BY <1>1, <1>2, <1>4, <2>1, PushGroupType DEF Programs
  <2> QED
    BY <1>1, <2>2
<1>7. pool' \in [Names -> Tensor]
  <2>1. WeightsForCall \in [Names -> Tensor]
    BY TensorOperations DEF WeightsForCall, TypeOK
  <2>2. pool' = PushPersistent("fwd", WeightsForCall, base, m.gen)
    BY DEF Call
  <2> QED
    BY <1>2, <1>5, <2>1, <2>2, PushPersistentType DEF Programs
<1>8. fwd' \in [call : Nat, ok : BOOLEAN, ver : Nat,
                weights : [Trainable -> Nat \cup {Null}]]
  <2>1. WeightsOf(pool') \in [Trainable -> Nat \cup {Null}]
    BY <1>7, WeightsOfType
  <2>2. Fits(new, 1..n, NumInputs) \in BOOLEAN
    BY DEF Fits
  <2>3. fwd' = [call |-> calls + 1, ok |-> Fits(new, 1..n, NumInputs),
                ver |-> version, weights |-> WeightsOf(pool')]
    BY DEF Call
  <2> QED
    BY <2>1, <2>2, <2>3, <1>3 DEF TypeOK
<1>9. inter' \in Seq(Tensor)
  <2>1. [i \in 1..NumIntermediates |-> FromRuntime(calls + 1, m.gen)]
           \in [1..NumIntermediates -> Tensor]
    BY <1>2, <1>3, FreshTensors
  <2>2. [i \in 1..NumIntermediates |-> FromRuntime(calls + 1, m.gen)] \in Seq(Tensor)
    BY <2>1, ConstantsAssumption, IntervalSeq
  <2>3. \/ inter' = [i \in 1..NumIntermediates |-> FromRuntime(calls + 1, m.gen)]
        \/ inter' = inter
    BY DEF Call
  <2> QED
    BY <2>2, <2>3 DEF TypeOK
<1>10. progOut' \in [Programs -> Nat \cup {Null}] /\ returned' \subseteq Nat
       /\ result' \in {"ok", "error"}
  BY <1>3 DEF Call, TypeOK
<1> QED
  BY <1>2, <1>3, <1>6, <1>7, <1>8, <1>9, <1>10 DEF Call, TypeOK

(* The gradient hooks of loss.backward() keep the state well typed.        *)
LEMMA LossBackwardType ==
  ASSUME TypeOK, NEW c \in returned, NEW S \in SUBSET (1..NumGradInputs),
         LossBackward(c, S)
  PROVE  TypeOK'
<1>1. FromHost(c, TRUE) \in Tensor
  BY FreshTensors DEF TypeOK
<1>2. gradIn' \in [1..NumGradInputs -> Tensor \cup {Null}]
  BY <1>1 DEF LossBackward, TypeOK
<1> QED
  BY <1>2 DEF LossBackward, TypeOK

(* What running the backward program does to the tensors it takes.         *)
LEMMA RunBackwardType ==
  ASSUME TypeOK, BackwardReady, RunBackward
  PROVE  /\ mesh' \in Mesh
         /\ gradIn' \in [1..NumGradInputs -> Tensor \cup {Null}]
         /\ inter' \in Seq(Tensor)
         /\ inputs' \in Seq(Tensor)
         /\ pool' \in [Names -> Tensor]
<1> DEFINE m == OpenIfClosed(mesh)
           G == 1..NumGradInputs
           g == Cardinality(ToPush(gradIn, G))
           i == Cardinality(ToPush(inter, DOMAIN inter))
           x == Cardinality(ToPush(inputs, BwdInputs))
<1>1. mesh' \in Mesh /\ m.gen \in Nat
  BY OpenType DEF TypeOK, RunBackward
<1>2. gradIn \in [G -> Tensor] /\ NumGradInputs \in Nat
  BY ConstantsAssumption DEF TypeOK, BackwardReady
<1>3. /\ inter \in [1..Len(inter) -> Tensor] /\ Len(inter) \in Nat
      /\ DOMAIN inter = 1..Len(inter)
      /\ inputs \in [1..Len(inputs) -> Tensor] /\ Len(inputs) \in Nat
      /\ DOMAIN inputs = 1..Len(inputs)
  BY DEF TypeOK
<1>4. g \in Nat
  BY <1>2, CardinalityNat DEF ToPush
<1>5. i \in Nat
  BY <1>3, CardinalityNat DEF ToPush
<1>6. BwdInputs \in SUBSET (1..Len(inputs))
  BY <1>3 DEF BackwardReady
<1>7. x \in Nat
  BY <1>3, <1>6, CardinalityNat DEF ToPush
<1>8. gradIn' \in [G -> Tensor]
  <2>1. gradIn' = PushGroup("bwd", gradIn, G, 0, m.gen)
    BY DEF RunBackward
  <2> QED
    BY <2>1, <1>1, <1>2, PushGroupType DEF Programs
<1>9. inter' \in Seq(Tensor)
  <2>1. inter' = PushGroup("bwd", inter, DOMAIN inter, g, m.gen)
    BY DEF RunBackward
  <2>2. inter' \in [1..Len(inter) -> Tensor]
    BY <2>1, <1>1, <1>3, <1>4, PushGroupType DEF Programs
  <2> QED
    BY <2>2, <1>3
<1>10. inputs' \in Seq(Tensor)
  <2>1. inputs' = PushGroup("bwd", inputs, BwdInputs, g + i, m.gen)
    BY DEF RunBackward
  <2>2. g + i \in Nat
    BY <1>4, <1>5
  <2>3. inputs' \in [1..Len(inputs) -> Tensor]
    BY <2>1, <2>2, <1>1, <1>3, <1>6, PushGroupType DEF Programs
  <2> QED
    BY <2>3, <1>3
<1>11. pool' \in [Names -> Tensor]
  <2>1. pool' = PushPersistent("bwd", pool, g + i + x, m.gen)
    BY DEF RunBackward
  <2>2. g + i + x \in Nat
    BY <1>4, <1>5, <1>7
  <2> QED
    BY <2>1, <2>2, <1>1, PushPersistentType DEF TypeOK, Programs
<1> QED
  BY <1>1, <1>8, <1>9, <1>10, <1>11

(* A backward() that fails input verification keeps the state well typed.  *)
LEMMA BackwardMismatchType ==
  ASSUME TypeOK, BackwardMismatch
  PROVE  TypeOK'
<1>1. progOut' \in [Programs -> Nat \cup {Null}]
  BY DEF BackwardMismatch, TypeOK
<1> QED
  BY <1>1, RunBackwardType DEF BackwardMismatch, TypeOK

(* The gradients a backward pass produces.                                 *)
LEMMA GradientsType ==
  ASSUME NEW b \in Nat, NEW g \in Nat
  PROVE  /\ Gradients(b, g) \in [1..Len(Params) -> Tensor]
         /\ Len(Params) \in Nat /\ DOMAIN Params = 1..Len(Params)
<1>1. Len(Params) \in Nat /\ DOMAIN Params = 1..Len(Params)
  BY ConstantsAssumption
<1> QED
  BY <1>1, FreshTensors DEF Gradients

(* A backward() that runs keeps the state well typed.                      *)
LEMMA BackwardType ==
  ASSUME TypeOK, Backward
  PROVE  TypeOK'
<1>1. /\ mesh' \in Mesh
      /\ gradIn' \in [1..NumGradInputs -> Tensor \cup {Null}]
      /\ inter' \in Seq(Tensor)
      /\ inputs' \in Seq(Tensor)
      /\ pool' \in [Names -> Tensor]
  BY RunBackwardType DEF Backward
<1>2. backwards' \in Nat /\ mesh'.gen \in Nat
  BY <1>1 DEF Backward, TypeOK, Mesh
<1>3. WeightsOf(pool') \in [Trainable -> Nat \cup {Null}]
  BY <1>1, WeightsOfType
<1>4. progOut' \in [Programs -> Nat \cup {Null}]
  <2>1. progOut \in [Programs -> Nat \cup {Null}] /\ backwards + 1 \in Nat
    BY DEF TypeOK
  <2>2. progOut' = [progOut EXCEPT !["bwd"] = backwards + 1]
    BY DEF Backward
  <2> QED
    BY <2>1, <2>2
<1> DEFINE gr == Gradients(backwards', mesh'.gen)
<1>5. /\ gr \in [1..Len(Params) -> Tensor]
      /\ Len(Params) \in Nat /\ DOMAIN Params = 1..Len(Params)
  BY <1>2, GradientsType
<1>6. CASE KeepGradients
  <2>1. gr \in Seq(Tensor)
    BY <1>5, IntervalSeq
  <2>2. gradOut' \in Seq(Tensor) /\ gradAt' \in [Trainable -> Nat \cup {Null}]
        /\ result' \in {"ok", "error"} /\ paramGrad' = paramGrad
    BY <1>3, <1>6, <2>1 DEF KeepGradients, TypeOK
  <2> QED
    BY <1>1, <1>2, <1>4, <2>2 DEF Backward, TypeOK
<1>7. CASE AccumulateGradients
  <2>1. gradOut' \in [1..Len(Params) -> Tensor]
    <3> SUFFICES ASSUME NEW j \in 1..Len(Params)
                 PROVE  gr[j] \in Tensor /\ ToTorch(gr[j]) \in Tensor
      BY <1>5, <1>7 DEF AccumulateGradients
    <3>1. gr[j] \in Tensor
      BY <1>5
    <3> QED
      BY <1>2, <3>1, TensorOperations
  <2>2. gradOut' \in Seq(Tensor)
    BY <1>5, <2>1, IntervalSeq
  <2>3. paramGrad' \in [Trainable -> SUBSET (Trainable \X Nat)]
    <3> DEFINE added(p) == {<<q, backwards'>> : q \in {r \in Trainable : <<p, r>> \in Matches}}
    <3>1. \A p \in Trainable : added(p) \in SUBSET (Trainable \X Nat)
      <4>1. backwards' \in Nat
        BY <1>2
      <4> SUFFICES ASSUME NEW p \in Trainable, NEW x \in added(p)
                   PROVE  x \in Trainable \X Nat
        OBVIOUS
      <4>2. PICK q \in Trainable : x = <<q, backwards'>>
        OBVIOUS
      <4> QED
        BY <4>1, <4>2
    <3>2. paramGrad' = [p \in Trainable |-> paramGrad[p] \cup added(p)]
      BY <1>7 DEF AccumulateGradients
    <3>3. paramGrad \in [Trainable -> SUBSET (Trainable \X Nat)]
      BY DEF TypeOK
    <3> HIDE DEF added
    <3> QED
      BY <3>1, <3>2, <3>3
  <2>4. gradAt' \in [Trainable -> Nat \cup {Null}] /\ result' \in {"ok", "error"}
    BY <1>3, <1>7 DEF AccumulateGradients
  <2> QED
    BY <1>1, <1>2, <1>4, <2>2, <2>3, <2>4 DEF Backward, TypeOK
<1> QED
  BY <1>6, <1>7 DEF Backward

(* Running the optimizer program keeps the pool a pool.                    *)
LEMMA RunOptimizerType ==
  ASSUME TypeOK, RunOptimizer
  PROVE  mesh' \in Mesh /\ pool' \in [Names -> Tensor]
<1> DEFINE m == OpenIfClosed(mesh)
           base == Cardinality(ToPush(gradOut, DOMAIN gradOut))
           pl == PushPersistent("opt", pool, base, m.gen)
<1>1. mesh' \in Mesh /\ m.gen \in Nat
  BY OpenType DEF TypeOK, RunOptimizer
<1>2. base \in Nat
  <2>1. DOMAIN gradOut = 1..Len(gradOut) /\ Len(gradOut) \in Nat
    BY DEF TypeOK
  <2> QED
    BY <2>1, CardinalityNat DEF ToPush
<1>3. pl \in [Names -> Tensor]
  BY <1>1, <1>2, PushPersistentType DEF TypeOK, Programs
<1>4. FromRuntime(version + 1, m.gen) \in Tensor
  BY <1>1, FreshTensors DEF TypeOK
<1>5. ASSUME NEW n \in Names
      PROVE  /\ pl[n] \in Tensor
             /\ ReplaceHandle(pl[n], FromRuntime(version + 1, m.gen)) \in Tensor
  BY <1>3, <1>4, TensorOperations
<1> QED
  BY <1>1, <1>5 DEF RunOptimizer

(* An optimizer step on the device keeps the state well typed.             *)
LEMMA StepType ==
  ASSUME TypeOK, Step
  PROVE  TypeOK'
<1>1. mesh' \in Mesh /\ pool' \in [Names -> Tensor]
  BY RunOptimizerType DEF Step
<1>2. version + 1 \in Nat
  BY DEF TypeOK
<1>3. progOut' \in [Programs -> Nat \cup {Null}]
  BY <1>2 DEF Step, TypeOK
<1>4. written' \in [Trainable -> Nat]
  BY <1>2 DEF Step
<1>5. gradOut' \in Seq(Tensor)
  BY DEF Step
<1> QED
  BY <1>1, <1>2, <1>3, <1>4, <1>5 DEF Step, TypeOK

(* A step() without gradients keeps the state well typed.                  *)
LEMMA StepMismatchType ==
  ASSUME TypeOK, StepMismatch
  PROVE  TypeOK'
<1>1. mesh' \in Mesh /\ pool' \in [Names -> Tensor]
  BY RunOptimizerType DEF StepMismatch
<1>2. progOut' \in [Programs -> Nat \cup {Null}]
  BY DEF StepMismatch, TypeOK
<1> QED
  BY <1>1, <1>2 DEF StepMismatch, TypeOK

(* The writes of the host side keep the state well typed.                  *)
LEMMA HostType ==
  ASSUME TypeOK, UpdateHostWeights \/ TorchStep \/ LoadWeights \/ ZeroGrad
  PROVE  TypeOK'
<1>1. CASE UpdateHostWeights
  <2>1. pool' \in [Names -> Tensor]
    BY <1>1, TensorOperations DEF UpdateHostWeights, TypeOK
  <2> QED
    BY <1>1, <2>1 DEF UpdateHostWeights, TypeOK
<1>2. ASSUME NEW S, HostWrite(S)
      PROVE  TypeOK'
  <2>1. version + 1 \in Nat
    BY DEF TypeOK
  <2>2. pool' \in [Names -> Tensor]
    BY <1>2, <2>1, TensorOperations DEF HostWrite, TypeOK
  <2>3. written' \in [Trainable -> Nat]
    BY <1>2, <2>1 DEF HostWrite, TypeOK
  <2> QED
    BY <1>2, <2>1, <2>2, <2>3 DEF HostWrite, TypeOK
<1>3. CASE ZeroGrad
  BY <1>3 DEF ZeroGrad, TypeOK
<1> QED
  BY <1>1, <1>2, <1>3 DEF TorchStep, LoadWeights

(* Calls refused by an assertion keep the state well typed.                *)
LEMMA RefusedType ==
  ASSUME TypeOK, BackwardRefused \/ StepRefused \/ ConfigureDevices
  PROVE  TypeOK'
<1>1. Configure(mesh) \in Mesh
  BY DEF Configure, Mesh, TypeOK
<1> QED
  BY <1>1 DEF BackwardRefused, StepRefused, ConfigureDevices, TypeOK

(* Every call of the model's API keeps the state well-formed: the program  *)
(* states, the pool and the Python-side lists only ever hold tensors, and  *)
(* every slot number asked of the binary is a natural number.              *)
THEOREM TypeCorrect == Spec => []TypeOK
<1>1. Init => TypeOK
  BY InitType
<1>2. TypeOK /\ [Next]_vars => TypeOK'
  <2> SUFFICES ASSUME TypeOK, [Next]_vars PROVE TypeOK'
    OBVIOUS
  <2>1. CASE UNCHANGED vars
    BY <2>1 DEF vars, TypeOK
  <2>2. CASE \E n \in InputCounts, fits \in BOOLEAN : Call(n, fits)
    BY <2>2, CallType
  <2>3. CASE \E c \in returned, S \in SUBSET (1..NumGradInputs) : LossBackward(c, S)
    BY <2>3, LossBackwardType
  <2>4. CASE Backward
    BY <2>4, BackwardType
  <2>5. CASE BackwardMismatch
    BY <2>5, BackwardMismatchType
  <2>6. CASE Step \/ StepMismatch
    BY <2>6, StepType, StepMismatchType
  <2>7. CASE UpdateHostWeights \/ TorchStep \/ LoadWeights \/ ZeroGrad
    BY <2>7, HostType
  <2>8. CASE BackwardRefused \/ StepRefused \/ ConfigureDevices
    BY <2>8, RefusedType
  <2> QED
    BY <2>1, <2>2, <2>3, <2>4, <2>5, <2>6, <2>7, <2>8 DEF Next
<1> QED
  BY <1>1, <1>2, PTL DEF Spec

-----------------------------------------------------------------------------
(* What each call does to the two copies of a weight.                      *)

(* run_program copies the host contents of the persistent inputs that are  *)
(* not on the device and leaves all other copies alone.                    *)
LEMMA PushPersistentCopies ==
  ASSUME NEW pg, NEW pl \in [Names -> Tensor], NEW base, NEW g, NEW n \in Names
  PROVE  /\ PushPersistent(pg, pl, base, g)[n].host = pl[n].host
         /\ PushPersistent(pg, pl, base, g)[n].dev =
               IF n \in InProgram(pg) /\ ~OnDevice(pl[n]) THEN pl[n].host ELSE pl[n].dev
BY DEF PushPersistent, ToDevice, Tensor

(* What __call__ leaves in the two copies of a weight.                     *)
LEMMA CallCopies ==
  ASSUME TypeOK, NEW c \in InputCounts, NEW b \in BOOLEAN, Call(c, b),
         NEW p \in Trainable
  PROVE  /\ pool'[p].host = pool[p].host
         /\ pool'[p].dev = IF mode = "host" \/ ~OnDevice(pool[p])
                           THEN pool[p].host ELSE pool[p].dev
         /\ fwd'.weights = [q \in Trainable |-> pool'[q].dev]
<1> DEFINE base == Cardinality(ToPush([i \in 1..c |-> FromHost(calls + 1, b)], 1..c))
           g == OpenIfClosed(mesh).gen
<1>1. p \in Names /\ p \in InProgram("fwd")
  BY TrainableNames, ConstantsAssumption
<1>2. pool' = PushPersistent("fwd", WeightsForCall, base, g)
  BY DEF Call
<1>3. WeightsForCall \in [Names -> Tensor]
  BY TensorOperations DEF WeightsForCall, TypeOK
<1>4. /\ WeightsForCall[p].host = pool[p].host
      /\ WeightsForCall[p].dev = IF mode = "host" THEN Null ELSE pool[p].dev
  BY <1>1 DEF WeightsForCall, DetachFromDevice, TypeOK, Tensor
<1>5. /\ pool'[p].host = WeightsForCall[p].host
      /\ pool'[p].dev = IF ~OnDevice(WeightsForCall[p]) THEN WeightsForCall[p].host
                                                      ELSE WeightsForCall[p].dev
  <2> HIDE DEF base, g
  <2> QED
    BY <1>1, <1>2, <1>3, PushPersistentCopies
<1>6. fwd'.weights = WeightsOf(pool')
  BY DEF Call
<1> QED
  BY <1>4, <1>5, <1>6 DEF OnDevice, WeightsOf

(* What the backward run leaves in the two copies of a tensor.             *)
LEMMA RunBackwardCopies ==
  ASSUME TypeOK, RunBackward, NEW p \in Names
  PROVE  /\ pool'[p].host = pool[p].host
         /\ pool'[p].dev = IF p \in InProgram("bwd") /\ ~OnDevice(pool[p])
                           THEN pool[p].host ELSE pool[p].dev
<1>1. PICK base, g : pool' = PushPersistent("bwd", pool, base, g)
  BY DEF RunBackward
<1>2. pool \in [Names -> Tensor]
  BY DEF TypeOK
<1> QED
  BY <1>1, <1>2, PushPersistentCopies

(* The optimizer run, with the pool pl it has pushed before submitting.    *)
LEMMA RunOptimizerCopies ==
  ASSUME TypeOK, RunOptimizer
  PROVE  \E pl, g :
           /\ g = OpenIfClosed(mesh).gen
           /\ pl \in [Names -> Tensor]
           /\ \A n \in Names :
                /\ pl[n].host = pool[n].host
                /\ pl[n].dev = IF n \in InProgram("opt") /\ ~OnDevice(pool[n])
                              THEN pool[n].host ELSE pool[n].dev
           /\ pool' = [n \in Names |->
                IF n \in Aliased /\ gradOut # <<>>
                THEN ReplaceHandle(pl[n], FromRuntime(version + 1, g))
                ELSE pl[n]]
<1> DEFINE g == OpenIfClosed(mesh).gen
           base == Cardinality(ToPush(gradOut, DOMAIN gradOut))
<1>1. PICK pl : pl = PushPersistent("opt", pool, base, g)
  OBVIOUS
<1>2. g \in Nat /\ base \in Nat
  <2>1. DOMAIN gradOut = 1..Len(gradOut) /\ Len(gradOut) \in Nat
    BY DEF TypeOK
  <2> QED
    BY <2>1, OpenType, CardinalityNat DEF TypeOK, ToPush
<1>3. pool' = [n \in Names |->
                IF n \in Aliased /\ gradOut # <<>>
                THEN ReplaceHandle(pl[n], FromRuntime(version + 1, g))
                ELSE pl[n]]
  BY <1>1 DEF RunOptimizer
<1>4. pool \in [Names -> Tensor]
  BY DEF TypeOK
<1> HIDE DEF g, base
<1>5. pl \in [Names -> Tensor]
  BY <1>1, <1>2, <1>4, PushPersistentType DEF Programs
<1>6. ASSUME NEW n \in Names
      PROVE  /\ pl[n].host = pool[n].host
             /\ pl[n].dev = IF n \in InProgram("opt") /\ ~OnDevice(pool[n])
                           THEN pool[n].host ELSE pool[n].dev
  BY <1>1, <1>4 DEF PushPersistent, ToDevice, Tensor
<1> QED
  BY <1>3, <1>5, <1>6 DEF g

(* A device step leaves the new version behind every weight's handle.      *)
LEMMA StepCopies ==
  ASSUME TypeOK, Step, NEW p \in Trainable
  PROVE  pool'[p].host = pool[p].host /\ pool'[p].dev = version + 1
<1>1. p \in Names /\ p \in Aliased
  BY TrainableNames, ConstantsAssumption
<1>2. PICK pl, g :
        /\ pl \in [Names -> Tensor]
        /\ pl[p].host = pool[p].host
        /\ pool' = [n \in Names |->
             IF n \in Aliased /\ gradOut # <<>>
             THEN ReplaceHandle(pl[n], FromRuntime(version + 1, g))
             ELSE pl[n]]
  BY <1>1, RunOptimizerCopies DEF Step
<1>3. pool'[p] = ReplaceHandle(pl[p], FromRuntime(version + 1, g))
  BY <1>1, <1>2 DEF Step
<1>4. pl[p] \in Tensor
  BY <1>1, <1>2
<1>5. ReplaceHandle(pl[p], FromRuntime(version + 1, g)).host = pl[p].host
  BY <1>4 DEF ReplaceHandle, Tensor
<1>6. ReplaceHandle(pl[p], FromRuntime(version + 1, g)).dev = version + 1
  BY <1>4 DEF ReplaceHandle, FromRuntime, Tensor
<1> QED
  BY <1>2, <1>3, <1>5, <1>6

(* A step() without gradients pushes weights and changes no contents.      *)
LEMMA StepMismatchCopies ==
  ASSUME TypeOK, StepMismatch, NEW p \in Names
  PROVE  /\ pool'[p].host = pool[p].host
         /\ pool'[p].dev = IF p \in InProgram("opt") /\ ~OnDevice(pool[p])
                           THEN pool[p].host ELSE pool[p].dev
<1>1. PICK pl, g :
        /\ pl[p].host = pool[p].host
        /\ pl[p].dev = IF p \in InProgram("opt") /\ ~OnDevice(pool[p])
                      THEN pool[p].host ELSE pool[p].dev
        /\ pool' = [n \in Names |->
             IF n \in Aliased /\ gradOut # <<>>
             THEN ReplaceHandle(pl[n], FromRuntime(version + 1, g))
             ELSE pl[n]]
  BY RunOptimizerCopies DEF StepMismatch
<1>2. pool'[p] = pl[p]
  BY <1>1 DEF StepMismatch
<1> QED
  BY <1>1, <1>2

(* update_host_weights copies from the device what is there.               *)
LEMMA UpdateHostCopies ==
  ASSUME TypeOK, UpdateHostWeights, NEW p \in Names
  PROVE  /\ pool'[p].dev = pool[p].dev
         /\ pool'[p].host = IF p \in HostUpdated THEN pool[p].dev ELSE pool[p].host
         /\ p \in HostUpdated => OnDevice(pool[p])
<1>1. p \in HostUpdated => OnDevice(pool[p])
  BY ConstantsAssumption DEF HostUpdated
<1> QED
  BY <1>1 DEF UpdateHostWeights, UpdateHostData, TypeOK, Tensor

(* A write of the torch side reaches host copies only.                     *)
LEMMA HostWriteCopies ==
  ASSUME TypeOK, NEW S, HostWrite(S), NEW p \in Names
  PROVE  /\ pool'[p].dev = pool[p].dev
         /\ pool'[p].host = IF p \in S THEN version + 1 ELSE pool[p].host
BY DEF HostWrite, TypeOK, Tensor

-----------------------------------------------------------------------------
(* Coherence of the two copies, when torch writes weights only while it    *)
(* owns them.                                                              *)

(* Every step of the model keeps one copy of a weight authoritative.       *)
LEMMA CoherentStep ==
  ASSUME CrossWrites = FALSE, TypeOK, WeightsCoherent, [Next]_vars
  PROVE  WeightsCoherent'
<1> SUFFICES ASSUME NEW p \in Trainable
             PROVE  written'[p] = IF mode' = "host" \/ ~OnDevice(pool'[p])
                                  THEN pool'[p].host ELSE pool'[p].dev
  BY DEF WeightsCoherent, OnDevice
<1>1. /\ written[p] = IF mode = "host" \/ ~OnDevice(pool[p])
                      THEN pool[p].host ELSE pool[p].dev
      /\ written[p] \in Nat /\ written[p] # Null /\ p \in Names
  BY TrainableNames, NullAssumption DEF WeightsCoherent, TypeOK
<1>2. version + 1 \in Nat /\ version + 1 # Null
  BY NullAssumption DEF TypeOK
<1>3. CASE UNCHANGED vars
  BY <1>1, <1>3 DEF vars, OnDevice
<1>4. ASSUME NEW n \in InputCounts, NEW b \in BOOLEAN, Call(n, b)
      PROVE  written'[p] = IF mode' = "host" \/ ~OnDevice(pool'[p])
                           THEN pool'[p].host ELSE pool'[p].dev
  <2>1. written' = written /\ mode' = mode
    BY <1>4 DEF Call
  <2>2. /\ pool'[p].host = pool[p].host
        /\ pool'[p].dev = IF mode = "host" \/ ~OnDevice(pool[p])
                          THEN pool[p].host ELSE pool[p].dev
    BY <1>4, CallCopies
  <2> QED
    BY <1>1, <2>1, <2>2 DEF OnDevice
<1>5. CASE Backward \/ BackwardMismatch
  <2>1. written' = written /\ mode' = mode
    BY <1>5 DEF Backward, BackwardMismatch
  <2>2. /\ pool'[p].host = pool[p].host
        /\ pool'[p].dev = IF p \in InProgram("bwd") /\ ~OnDevice(pool[p])
                          THEN pool[p].host ELSE pool[p].dev
    BY <1>1, <1>5, RunBackwardCopies DEF Backward, BackwardMismatch
  <2> QED
    BY <1>1, <2>1, <2>2 DEF OnDevice
<1>6. CASE Step
  <2>1. written'[p] = version + 1 /\ mode' = mode /\ mode = "device"
    BY <1>6 DEF Step, optimizer_on_device
  <2>2. pool'[p].dev = version + 1
    BY <1>6, StepCopies
  <2> QED
    BY <1>2, <2>1, <2>2 DEF OnDevice
<1>7. CASE StepMismatch
  <2>1. written' = written /\ mode' = mode
    BY <1>7 DEF StepMismatch
  <2>2. /\ pool'[p].host = pool[p].host
        /\ pool'[p].dev = IF p \in InProgram("opt") /\ ~OnDevice(pool[p])
                          THEN pool[p].host ELSE pool[p].dev
    BY <1>1, <1>7, StepMismatchCopies
  <2> QED
    BY <1>1, <2>1, <2>2 DEF OnDevice
<1>8. CASE UpdateHostWeights
  <2>1. written' = written /\ mode' = mode /\ mode # "host"
    BY <1>8 DEF UpdateHostWeights
  <2>2. /\ pool'[p].dev = pool[p].dev
        /\ pool'[p].host = IF p \in HostUpdated THEN pool[p].dev ELSE pool[p].host
        /\ p \in HostUpdated => OnDevice(pool[p])
    BY <1>1, <1>8, UpdateHostCopies
  <2> QED
    BY <1>1, <2>1, <2>2 DEF OnDevice
<1>9. CASE TorchStep \/ LoadWeights
  <2>1. PICK S : /\ HostWrite(S)
                 /\ mode = "host" \/ (S = Trainable /\ ~OnDevice(pool[p]))
    BY <1>9 DEF TorchStep, LoadWeights
  <2>2. /\ pool'[p].dev = pool[p].dev
        /\ pool'[p].host = IF p \in S THEN version + 1 ELSE pool[p].host
    BY <1>1, <2>1, HostWriteCopies
  <2>3. mode' = mode /\ written'[p] = IF p \in S THEN version + 1 ELSE written[p]
    BY <2>1 DEF HostWrite
  <2> QED
    BY <1>1, <2>1, <2>2, <2>3 DEF OnDevice
<1>10. CASE (\E c \in returned, S \in SUBSET (1..NumGradInputs) : LossBackward(c, S))
            \/ BackwardRefused \/ StepRefused \/ ZeroGrad \/ ConfigureDevices
  <2>1. written' = written /\ mode' = mode /\ pool' = pool
    BY <1>10 DEF LossBackward, BackwardRefused, StepRefused, ZeroGrad, ConfigureDevices
  <2> QED
    BY <1>1, <2>1 DEF OnDevice
<1> QED
  BY <1>3, <1>4, <1>5, <1>6, <1>7, <1>8, <1>9, <1>10 DEF Next

(* A model that has not run has its weights on the host.                   *)
LEMMA CoherentInit == Init => WeightsCoherent
<1> SUFFICES ASSUME Init, NEW p \in Trainable
             PROVE  written[p] = IF mode = "host" \/ ~OnDevice(pool[p])
                                 THEN pool[p].host ELSE pool[p].dev
  BY DEF WeightsCoherent
<1>1. written[p] = 0 /\ pool[p] = InitTensor
  BY TrainableNames DEF Init
<1> QED
  BY <1>1 DEF InitTensor, FromHost, OnDevice

(* remove_weights_from_device on the host path and update_tensor on the    *)
(* device path keep one authoritative copy of every weight, for any number *)
(* of weights and any interleaving of calls, as long as torch does not     *)
(* write weights the device owns and update_host_weights is not called     *)
(* with a torch optimizer.                                                 *)
THEOREM Coherence ==
  ASSUME CrossWrites = FALSE
  PROVE  Spec => []WeightsCoherent
<1>1. Init => WeightsCoherent
  BY CoherentInit
<1>2. TypeOK /\ WeightsCoherent /\ [Next]_vars => WeightsCoherent'
  BY CoherentStep
<1> QED
  BY <1>1, <1>2, TypeCorrect, PTL DEF Spec

-----------------------------------------------------------------------------
(* CompiledModel implements WeightStore.                                   *)

(* __call__ is a read of the abstract store.                               *)
LEMMA CallReads ==
  ASSUME TypeOK, WeightsCoherent, NEW n \in InputCounts, NEW b \in BOOLEAN, Call(n, b)
  PROVE  Store!Read
<1>1. ASSUME NEW p \in Trainable PROVE pool'[p].dev = written[p]
  BY CallCopies DEF WeightsCoherent
<1>2. written = [p \in Trainable |-> written[p]]
  BY DEF TypeOK
<1>3. fwd'.weights = [p \in Trainable |-> pool'[p].dev]
  <2>1. CASE Trainable = {}
    BY <2>1 DEF Call, WeightsOf
  <2>2. CASE Trainable # {}
    BY <2>2, CallCopies
  <2> QED
    BY <2>1, <2>2
<1>4. fwd'.weights = written
  BY <1>1, <1>2, <1>3
<1>5. calls' = calls + 1 /\ written' = written /\ version' = version
  BY DEF Call
<1> QED
  BY <1>4, <1>5 DEF Store!Read

(* A write of the torch side is a write of the abstract store.             *)
LEMMA HostWriteWrites ==
  ASSUME NEW S \in SUBSET Trainable, HostWrite(S)
  PROVE  Store!Write(S)
BY DEF HostWrite, Store!Write

(* A device step is a write of the abstract store.                         *)
LEMMA StepWrites ==
  ASSUME Step
  PROVE  Store!Write(Trainable)
<1>1. written' = [p \in Trainable |-> IF p \in Trainable THEN version + 1 ELSE written[p]]
  BY DEF Step
<1> QED
  BY <1>1 DEF Step, Store!Write

(* Host and device copies of the weights, with their pushes, detaches and  *)
(* in-place handle updates, implement a single store: every __call__ reads *)
(* the values last written, and nothing but an optimizer step or a torch   *)
(* write changes them.                                                     *)
THEOREM ImplementsWeightStore ==
  ASSUME CrossWrites = FALSE
  PROVE  Spec => ReadsLatestWeights
<1>1. Init => Store!Init
  <2> SUFFICES ASSUME Init PROVE Store!Init
    OBVIOUS
  <2>1. fwd.weights = [p \in Trainable |-> 0]
    BY DEF Init
  <2> QED
    BY <2>1 DEF Init, Store!Init
<1>2. TypeOK /\ WeightsCoherent /\ [Next]_vars => [Store!Next]_(Store!vars)
  <2> SUFFICES ASSUME TypeOK, WeightsCoherent, [Next]_vars
               PROVE  Store!Next \/ UNCHANGED <<written, version, calls, fwd.weights>>
    BY DEF Store!vars
  <2>1. CASE \E n \in InputCounts, fits \in BOOLEAN : Call(n, fits)
    BY <2>1, CallReads DEF Store!Next
  <2>2. CASE Step
    <3>1. Store!Write(Trainable)
      BY <2>2, StepWrites
    <3> QED
      BY <3>1 DEF Store!Next
  <2>3. CASE TorchStep \/ LoadWeights
    <3>1. PICK S \in SUBSET Trainable : HostWrite(S)
      <4>1. CASE TorchStep
        <5>1. {p \in Trainable : paramGrad[p] # {}} \in SUBSET Trainable
          OBVIOUS
        <5> QED
          BY <4>1, <5>1 DEF TorchStep
      <4>2. CASE LoadWeights
        BY <4>2 DEF LoadWeights
      <4> QED
        BY <2>3, <4>1, <4>2
    <3>2. Store!Write(S)
      BY <3>1, HostWriteWrites
    <3> QED
      BY <3>2 DEF Store!Next
  <2>4. CASE UNCHANGED vars
    BY <2>4 DEF vars
  <2>5. CASE \/ \E c \in returned, S \in SUBSET (1..NumGradInputs) : LossBackward(c, S)
             \/ BackwardRefused \/ BackwardMismatch \/ Backward
    BY <2>5 DEF LossBackward, BackwardRefused, BackwardMismatch, Backward
  <2>6. CASE StepMismatch \/ StepRefused \/ UpdateHostWeights \/ ZeroGrad \/ ConfigureDevices
    BY <2>6 DEF StepMismatch, StepRefused, UpdateHostWeights, ZeroGrad, ConfigureDevices
  <2> QED
    BY <2>1, <2>2, <2>3, <2>4, <2>5, <2>6 DEF Next
<1> QED
  BY <1>1, <1>2, TypeCorrect, Coherence, PTL DEF Spec, ReadsLatestWeights, Store!Spec

-----------------------------------------------------------------------------
(* The gradients a device step consumes.                                   *)

(* What makes GradientsMatchWeights inductive: every pool tensor keeps its *)
(* host copy, gradients exist only after a forward call, and from the      *)
(* first forward call on the weights of a model that is optimized on the   *)
(* device stay there.                                                      *)
GradientsInv ==
  /\ \A n \in Names : pool[n].host # Null
  /\ returned # {} => calls > 0
  /\ \A i \in 1..NumGradInputs : gradIn[i] # Null => calls > 0
  /\ gradOut # <<>> => calls > 0
  /\ mode = "device" /\ calls > 0 => \A p \in Trainable : OnDevice(pool[p])
  /\ GradientsMatchWeights

(* The strengthened invariant holds before the first call.                 *)
LEMMA GradientsInit == Init => GradientsInv
<1> SUFFICES ASSUME Init PROVE GradientsInv
  OBVIOUS
<1>1. \A n \in Names : pool[n].host # Null
  BY NullAssumption DEF Init, InitTensor, FromHost
<1>2. ~(calls > 0) /\ gradOut = <<>> /\ returned = {}
  BY DEF Init
<1>3. \A i \in 1..NumGradInputs : gradIn[i] = Null
  BY DEF Init
<1> QED
  BY <1>1, <1>2, <1>3 DEF GradientsInv, GradientsMatchWeights

(* WeightsOf depends only on the device copies.                            *)
LEMMA SameWeights ==
  ASSUME \A p \in Trainable : pool'[p].dev = pool[p].dev
  PROVE  WeightsOf(pool') = WeightsOf(pool)
BY DEF WeightsOf

(* __call__ leaves weights of a device-optimized model on the device.      *)
LEMMA CallGradients ==
  ASSUME TypeOK, GradientsInv, NEW n \in InputCounts, NEW b \in BOOLEAN, Call(n, b)
  PROVE  GradientsInv'
<1>1. /\ mode' = mode /\ gradIn' = gradIn /\ gradOut' = gradOut
      /\ gradAt' = gradAt /\ calls' = calls + 1
  BY DEF Call
<1>2. calls' > 0
  BY <1>1 DEF TypeOK
<1>3. \A m \in Names : pool'[m].host # Null
  <2> SUFFICES ASSUME NEW m \in Names PROVE pool'[m].host = pool[m].host
    BY DEF GradientsInv
  <2>1. PICK base, g : pool' = PushPersistent("fwd", WeightsForCall, base, g)
    BY DEF Call
  <2>2. WeightsForCall \in [Names -> Tensor]
    BY TensorOperations DEF WeightsForCall, TypeOK
  <2>3. WeightsForCall[m].host = pool[m].host
    BY DEF WeightsForCall, DetachFromDevice, TypeOK, Tensor
  <2>4. pool'[m].host = WeightsForCall[m].host
    BY <2>1, <2>2, PushPersistentCopies
  <2> QED
    BY <2>3, <2>4
<1>4. ASSUME NEW p \in Trainable
      PROVE  /\ OnDevice(pool'[p])
             /\ mode = "device" /\ OnDevice(pool[p]) => pool'[p].dev = pool[p].dev
  <2>1. pool[p].host # Null
    BY TrainableNames DEF GradientsInv
  <2>2. pool'[p].dev = IF mode = "host" \/ ~OnDevice(pool[p])
                       THEN pool[p].host ELSE pool[p].dev
    BY CallCopies
  <2> QED
    BY <2>1, <2>2 DEF OnDevice
<1>5. GradientsMatchWeights'
  <2> SUFFICES ASSUME mode = "device", gradOut # <<>>
               PROVE  gradAt = WeightsOf(pool')
    BY <1>1 DEF GradientsMatchWeights, optimizer_on_device
  <2>1. \A p \in Trainable : OnDevice(pool[p])
    BY DEF GradientsInv
  <2>2. WeightsOf(pool') = WeightsOf(pool)
    BY <1>4, <2>1, SameWeights
  <2> QED
    BY <2>2 DEF GradientsInv, GradientsMatchWeights, optimizer_on_device
<1> QED
  BY <1>1, <1>2, <1>3, <1>4, <1>5 DEF GradientsInv

(* backward() records gradients of the weights it ran with.                *)
LEMMA BackwardGradients ==
  ASSUME NumGradInputs > 0, TypeOK, GradientsInv, Backward \/ BackwardMismatch
  PROVE  GradientsInv'
<1>1. /\ mode' = mode /\ calls' = calls /\ returned' = returned
      /\ BackwardReady /\ RunBackward
  BY DEF Backward, BackwardMismatch
<1>2. calls > 0
  <2>1. 1 \in 1..NumGradInputs
    BY ConstantsAssumption
  <2> QED
    BY <1>1, <2>1 DEF BackwardReady, GradientsInv
<1>3. \A m \in Names : pool'[m].host # Null
  BY <1>1, RunBackwardCopies DEF GradientsInv
<1>4. mode = "device" => \A p \in Trainable : /\ OnDevice(pool'[p])
                                              /\ pool'[p].dev = pool[p].dev
  <2> SUFFICES ASSUME mode = "device", NEW p \in Trainable
               PROVE  OnDevice(pool'[p]) /\ pool'[p].dev = pool[p].dev
    OBVIOUS
  <2>1. OnDevice(pool[p]) /\ p \in Names
    BY <1>2, TrainableNames DEF GradientsInv
  <2>2. pool'[p].dev = pool[p].dev
    BY <1>1, <2>1, RunBackwardCopies
  <2> QED
    BY <2>1, <2>2 DEF OnDevice
<1>5. GradientsMatchWeights'
  <2> SUFFICES ASSUME mode = "device", gradOut' # <<>>
               PROVE  gradAt' = WeightsOf(pool')
    BY <1>1 DEF GradientsMatchWeights, optimizer_on_device
  <2>1. WeightsOf(pool') = WeightsOf(pool)
    BY <1>4, SameWeights
  <2>2. \/ gradAt' = WeightsOf(pool')
        \/ gradOut' = gradOut /\ gradAt' = gradAt
    BY DEF Backward, BackwardMismatch, KeepGradients, AccumulateGradients
  <2> QED
    BY <2>1, <2>2 DEF GradientsInv, GradientsMatchWeights, optimizer_on_device
<1> QED
  BY <1>1, <1>2, <1>3, <1>4, <1>5 DEF GradientsInv

(* A device step consumes the gradients along with the weights.            *)
LEMMA StepGradients ==
  ASSUME TypeOK, GradientsInv, Step
  PROVE  GradientsInv'
<1>1. /\ mode' = mode /\ calls' = calls /\ returned' = returned
      /\ gradIn' = gradIn /\ gradOut' = <<>>
  BY DEF Step
<1>2. version + 1 # Null
  BY NullAssumption DEF TypeOK
<1>3. \A p \in Trainable : OnDevice(pool'[p])
  BY <1>2, StepCopies DEF OnDevice
<1>4. \A m \in Names : pool'[m].host # Null
  <2> SUFFICES ASSUME NEW m \in Names PROVE pool'[m].host = pool[m].host
    BY DEF GradientsInv
  <2>1. CASE m \in Trainable
    BY <2>1, StepCopies
  <2>2. CASE m \notin Trainable
    <3>1. PICK pl, g :
            /\ pl[m].host = pool[m].host
            /\ pool' = [k \in Names |->
                 IF k \in Aliased /\ gradOut # <<>>
                 THEN ReplaceHandle(pl[k], FromRuntime(version + 1, g))
                 ELSE pl[k]]
      BY RunOptimizerCopies DEF Step
    <3>2. m \notin Aliased
      BY <2>2, ConstantsAssumption
    <3>3. pool'[m] = pl[m]
      BY <3>1, <3>2
    <3> QED
      BY <3>1, <3>3
  <2> QED
    BY <2>1, <2>2
<1> QED
  BY <1>1, <1>3, <1>4 DEF GradientsInv, GradientsMatchWeights

(* A step() without gradients leaves none behind.                          *)
LEMMA StepMismatchGradients ==
  ASSUME TypeOK, GradientsInv, StepMismatch
  PROVE  GradientsInv'
<1>1. /\ mode' = mode /\ calls' = calls /\ returned' = returned
      /\ gradIn' = gradIn /\ gradOut' = <<>>
  BY DEF StepMismatch
<1>2. \A m \in Names : pool'[m].host # Null
  BY StepMismatchCopies DEF GradientsInv
<1>3. \A p \in Trainable : OnDevice(pool[p]) => OnDevice(pool'[p])
  BY StepMismatchCopies, TrainableNames DEF OnDevice
<1> QED
  BY <1>1, <1>2, <1>3 DEF GradientsInv, GradientsMatchWeights

(* The host side never touches a device copy.                              *)
LEMMA HostGradients ==
  ASSUME TypeOK, GradientsInv, UpdateHostWeights \/ TorchStep \/ LoadWeights
  PROVE  GradientsInv'
<1>1. /\ mode' = mode /\ calls' = calls /\ returned' = returned
      /\ gradIn' = gradIn /\ gradOut' = gradOut /\ gradAt' = gradAt
  BY DEF UpdateHostWeights, TorchStep, LoadWeights, HostWrite
<1>2. version + 1 # Null
  BY NullAssumption DEF TypeOK
<1>3. ASSUME NEW m \in Names
      PROVE  pool'[m].host # Null /\ pool'[m].dev = pool[m].dev
  <2>1. CASE UpdateHostWeights
    BY <2>1, UpdateHostCopies DEF GradientsInv, OnDevice
  <2>2. ASSUME NEW S, HostWrite(S)
        PROVE  pool'[m].host # Null /\ pool'[m].dev = pool[m].dev
    BY <1>2, <2>2, HostWriteCopies DEF GradientsInv
  <2> QED
    BY <2>1, <2>2 DEF TorchStep, LoadWeights
<1>4. \A p \in Trainable : OnDevice(pool'[p]) = OnDevice(pool[p])
  BY <1>3, TrainableNames DEF OnDevice
<1>5. WeightsOf(pool') = WeightsOf(pool)
  BY <1>3, TrainableNames, SameWeights
<1> QED
  BY <1>1, <1>3, <1>4, <1>5 DEF GradientsInv, GradientsMatchWeights, optimizer_on_device

(* The remaining calls touch neither gradients nor weights.                *)
LEMMA OtherGradients ==
  ASSUME TypeOK, GradientsInv,
         \/ \E c \in returned, S \in SUBSET (1..NumGradInputs) : LossBackward(c, S)
         \/ BackwardRefused \/ StepRefused \/ ZeroGrad \/ ConfigureDevices
         \/ UNCHANGED vars
  PROVE  GradientsInv'
<1>1. /\ mode' = mode /\ calls' = calls /\ returned' = returned /\ pool' = pool
      /\ gradOut' = gradOut /\ gradAt' = gradAt
  BY DEF LossBackward, BackwardRefused, StepRefused, ZeroGrad, ConfigureDevices, vars
<1>2. gradIn' = gradIn \/ calls > 0
  BY DEF LossBackward, BackwardRefused, StepRefused, ZeroGrad, ConfigureDevices, vars,
         GradientsInv
<1> QED
  BY <1>1, <1>2 DEF GradientsInv, GradientsMatchWeights, optimizer_on_device, WeightsOf, OnDevice

(* With the optimizer on the device, step() only ever applies gradients    *)
(* computed with the weights it updates: never the same gradients twice,   *)
(* never gradients older than another step.  The backward program must     *)
(* take at least one gradient input, or it could run before any forward.   *)
THEOREM GradientsFresh ==
  ASSUME NumGradInputs > 0
  PROVE  Spec => []GradientsMatchWeights
<1>1. Init => GradientsInv
  BY GradientsInit
<1>2. TypeOK /\ GradientsInv /\ [Next]_vars => GradientsInv'
  <2> SUFFICES ASSUME TypeOK, GradientsInv, [Next]_vars PROVE GradientsInv'
    OBVIOUS
  <2>1. CASE \E n \in InputCounts, fits \in BOOLEAN : Call(n, fits)
    BY <2>1, CallGradients
  <2>2. CASE Backward \/ BackwardMismatch
    BY <2>2, BackwardGradients
  <2>3. CASE Step
    BY <2>3, StepGradients
  <2>4. CASE StepMismatch
    BY <2>4, StepMismatchGradients
  <2>5. CASE UpdateHostWeights \/ TorchStep \/ LoadWeights
    BY <2>5, HostGradients
  <2>6. CASE \/ \E c \in returned, S \in SUBSET (1..NumGradInputs) : LossBackward(c, S)
             \/ BackwardRefused \/ StepRefused \/ ZeroGrad \/ ConfigureDevices
             \/ UNCHANGED vars
    BY <2>6, OtherGradients
  <2> QED
    BY <2>1, <2>2, <2>3, <2>4, <2>5, <2>6 DEF Next
<1>3. GradientsInv => GradientsMatchWeights
  BY DEF GradientsInv
<1> QED
  BY <1>1, <1>2, <1>3, TypeCorrect, PTL DEF Spec

-----------------------------------------------------------------------------
(***************************************************************************)
(* What a program run finds on the device: handles of the open mesh, the   *)
(* layouts of its own slots, and the tensors of the last forward call.     *)
(***************************************************************************)
(* The fields the operations on a tensor set and those they keep.          *)

(* to_device: a handle with the given layout over the host contents.       *)
LEMMA ToDeviceFields ==
  ASSUME NEW t \in Tensor, NEW l, NEW g
  PROVE  /\ ToDevice(t, l, g).host = t.host /\ ToDevice(t, l, g).dev = t.host
         /\ ToDevice(t, l, g).layout = l /\ ToDevice(t, l, g).gen = g
BY DEF ToDevice, Tensor

(* detach_from_device drops the handle; update_host_data keeps it.         *)
LEMMA HostFields ==
  ASSUME NEW t \in Tensor
  PROVE  /\ DetachFromDevice(t).host = t.host /\ DetachFromDevice(t).dev = Null
         /\ DetachFromDevice(t).layout = NoLayout
         /\ UpdateHostData(t).host = t.dev /\ UpdateHostData(t).dev = t.dev
         /\ UpdateHostData(t).layout = t.layout /\ UpdateHostData(t).gen = t.gen
BY DEF DetachFromDevice, UpdateHostData, Tensor

(* A torch write reaches the host copy only.                               *)
LEMMA WriteFields ==
  ASSUME NEW t \in Tensor, NEW v
  PROVE  /\ [t EXCEPT !.host = v].host = v /\ [t EXCEPT !.host = v].dev = t.dev
         /\ [t EXCEPT !.host = v].layout = t.layout /\ [t EXCEPT !.host = v].gen = t.gen
BY DEF Tensor

(* update_tensor replaces the handle and keeps the host copy.              *)
LEMMA ReplaceFields ==
  ASSUME NEW t \in Tensor, NEW v, NEW g
  PROVE  /\ ReplaceHandle(t, FromRuntime(v, g)).host = t.host
         /\ ReplaceHandle(t, FromRuntime(v, g)).dev = v
         /\ ReplaceHandle(t, FromRuntime(v, g)).layout = OutLayout
         /\ ReplaceHandle(t, FromRuntime(v, g)).gen = g
BY DEF ReplaceHandle, FromRuntime, Tensor

(* The tensors of the pool when __call__ pushes them.                      *)
LEMMA CallPool ==
  ASSUME TypeOK, NEW n \in InputCounts, NEW b \in BOOLEAN, Call(n, b)
  PROVE  /\ WeightsForCall \in [Names -> Tensor]
         /\ \E base \in Nat :
              /\ base = Cardinality(ToPush([i \in 1..n |-> FromHost(calls + 1, b)], 1..n))
              /\ pool' = PushPersistent("fwd", WeightsForCall, base, mesh'.gen)
         /\ \A m \in Names : \/ WeightsForCall[m] = pool[m]
                             \/ WeightsForCall[m] = DetachFromDevice(pool[m])
<1>1. WeightsForCall \in [Names -> Tensor]
  BY TensorOperations DEF WeightsForCall, TypeOK
<1>2. Cardinality(ToPush([i \in 1..n |-> FromHost(calls + 1, b)], 1..n)) \in Nat
  BY ConstantsAssumption, CardinalityNat DEF ToPush
<1> QED
  BY <1>1, <1>2 DEF Call, WeightsForCall

(* The optimizer run, with the pool pl it has pushed before submitting.    *)
LEMMA OptimizerPool ==
  ASSUME TypeOK, RunOptimizer
  PROVE  \E base \in Nat :
           LET pl == PushPersistent("opt", pool, base, mesh'.gen) IN
           /\ pl \in [Names -> Tensor]
           /\ pool' = [n \in Names |->
                IF n \in Aliased /\ gradOut # <<>>
                THEN ReplaceHandle(pl[n], FromRuntime(version + 1, mesh'.gen))
                ELSE pl[n]]
<1> DEFINE base == Cardinality(ToPush(gradOut, DOMAIN gradOut))
<1>1. base \in Nat
  <2>1. DOMAIN gradOut = 1..Len(gradOut) /\ Len(gradOut) \in Nat
    BY DEF TypeOK
  <2> QED
    BY <2>1, CardinalityNat DEF ToPush
<1>2. mesh' = OpenIfClosed(mesh) /\ mesh'.gen \in Nat
  BY OpenType DEF RunOptimizer, TypeOK
<1>3. PushPersistent("opt", pool, base, mesh'.gen) \in [Names -> Tensor]
  BY <1>1, <1>2, PushPersistentType DEF TypeOK, Programs
<1>4. pool' = [n \in Names |->
                IF n \in Aliased /\ gradOut # <<>>
                THEN ReplaceHandle(PushPersistent("opt", pool, base, mesh'.gen)[n],
                                   FromRuntime(version + 1, mesh'.gen))
                ELSE PushPersistent("opt", pool, base, mesh'.gen)[n]]
  BY <1>2 DEF RunOptimizer
<1> QED
  BY <1>1, <1>3, <1>4

(* The pool after the backward run.                                        *)
LEMMA BackwardPool ==
  ASSUME TypeOK, BackwardReady, RunBackward
  PROVE  \E base \in Nat : pool' = PushPersistent("bwd", pool, base, mesh'.gen)
<1> DEFINE g == Cardinality(ToPush(gradIn, 1..NumGradInputs))
           i == Cardinality(ToPush(inter, DOMAIN inter))
           x == Cardinality(ToPush(inputs, BwdInputs))
<1>1. g \in Nat
  BY ConstantsAssumption, CardinalityNat DEF ToPush
<1>2. i \in Nat
  <2>1. DOMAIN inter = 1..Len(inter) /\ Len(inter) \in Nat
    BY DEF TypeOK
  <2> QED
    BY <2>1, CardinalityNat DEF ToPush
<1>3. x \in Nat
  <2>1. BwdInputs \subseteq 1..Len(inputs) /\ Len(inputs) \in Nat
    BY DEF TypeOK, BackwardReady
  <2> QED
    BY <2>1, CardinalityNat DEF ToPush
<1>4. g + i + x \in Nat
  BY <1>1, <1>2, <1>3
<1> QED
  BY <1>4 DEF RunBackward

-----------------------------------------------------------------------------
(* Handles and the mesh device.                                            *)

(* A tensor of the pool keeps host contents to push, and a handle it has   *)
(* belongs to the mesh device that is open.                                *)
Live(t, m) == t.host # Null /\ (OnDevice(t) => m.open /\ t.gen = m.gen)

LiveHandles == \A n \in Names : Live(pool[n], mesh)

(* open_device_if_closed leaves an open device and no handle behind.       *)
LEMMA LiveOpen ==
  ASSUME NEW m \in Mesh, NEW t, Live(t, m)
  PROVE  OpenIfClosed(m).open /\ Live(t, OpenIfClosed(m))
BY DEF Live, OpenIfClosed, Mesh

(* After the persistent loop of run_program every persistent input of the  *)
(* program has a handle on the device, which was opened if it was closed.  *)
LEMMA LivePush ==
  ASSUME NEW pg, NEW pl \in [Names -> Tensor], NEW base, NEW m \in Mesh,
         NEW n \in Names, Live(pl[n], m)
  PROVE  /\ Live(PushPersistent(pg, pl, base, OpenIfClosed(m).gen)[n], OpenIfClosed(m))
         /\ n \in InProgram(pg) =>
              PushPersistent(pg, pl, base, OpenIfClosed(m).gen)[n].gen = OpenIfClosed(m).gen
<1> DEFINE o == OpenIfClosed(m)
<1>1. o.open /\ Live(pl[n], o)
  BY LiveOpen
<1> HIDE DEF o
<1> SUFFICES /\ Live(PushPersistent(pg, pl, base, o.gen)[n], o)
             /\ n \in InProgram(pg) => PushPersistent(pg, pl, base, o.gen)[n].gen = o.gen
  BY DEF o
<1>2. CASE n \in InProgram(pg) /\ ~OnDevice(pl[n])
  <2> DEFINE l == GetLayout(pg, base + SlotOf(pg, n))
  <2>1. PushPersistent(pg, pl, base, o.gen)[n] = ToDevice(pl[n], l, o.gen)
    BY <1>2 DEF PushPersistent
  <2>2. pl[n] \in Tensor
    OBVIOUS
  <2> HIDE DEF l
  <2> QED
    BY <1>1, <2>1, <2>2, ToDeviceFields DEF Live, OnDevice
<1>3. CASE ~(n \in InProgram(pg) /\ ~OnDevice(pl[n]))
  <2>1. PushPersistent(pg, pl, base, o.gen)[n] = pl[n]
    BY <1>3 DEF PushPersistent
  <2> QED
    BY <1>1, <1>3, <2>1 DEF Live
<1> QED
  BY <1>2, <1>3

(* Before the first call nothing is on the device.                         *)
LEMMA LiveInit == Init => LiveHandles
BY NullAssumption DEF Init, LiveHandles, Live, InitTensor, FromHost, OnDevice

(* __call__ runs on live handles, also where it detached weights first.    *)
LEMMA LiveCall ==
  ASSUME TypeOK, LiveHandles, NEW c \in InputCounts, NEW b \in BOOLEAN, Call(c, b)
  PROVE  /\ LiveHandles'
         /\ \A n \in InProgram("fwd") \cap Names : pool'[n].gen = mesh'.gen
<1>1. mesh \in Mesh /\ mesh' = OpenIfClosed(mesh)
  BY DEF TypeOK, Call
<1>2. PICK base : pool' = PushPersistent("fwd", WeightsForCall, base, mesh'.gen)
  BY CallPool
<1>3. WeightsForCall \in [Names -> Tensor]
  BY CallPool
<1>4. ASSUME NEW n \in Names PROVE Live(WeightsForCall[n], mesh)
  <2>1. Live(pool[n], mesh) /\ pool[n] \in Tensor
    BY DEF LiveHandles, TypeOK
  <2>2. Live(DetachFromDevice(pool[n]), mesh)
    BY <2>1, HostFields DEF Live, OnDevice
  <2> QED
    BY <2>1, <2>2, CallPool
<1>5. ASSUME NEW n \in Names
      PROVE  Live(pool'[n], mesh') /\ (n \in InProgram("fwd") => pool'[n].gen = mesh'.gen)
  BY <1>1, <1>2, <1>3, <1>4, LivePush
<1> QED
  BY <1>5 DEF LiveHandles

(* A backward run on live handles.                                         *)
LEMMA LiveBackward ==
  ASSUME TypeOK, LiveHandles, BackwardReady, RunBackward
  PROVE  /\ LiveHandles'
         /\ \A n \in InProgram("bwd") \cap Names : pool'[n].gen = mesh'.gen
<1>1. mesh \in Mesh /\ mesh' = OpenIfClosed(mesh) /\ pool \in [Names -> Tensor]
  BY DEF TypeOK, RunBackward
<1>2. PICK base : pool' = PushPersistent("bwd", pool, base, mesh'.gen)
  BY BackwardPool
<1>3. ASSUME NEW n \in Names
      PROVE  Live(pool'[n], mesh') /\ (n \in InProgram("bwd") => pool'[n].gen = mesh'.gen)
  BY <1>1, <1>2, LivePush DEF LiveHandles
<1> QED
  BY <1>3 DEF LiveHandles

(* An optimizer run on live handles: what update_tensor puts in place of   *)
(* them belongs to the same device.                                        *)
LEMMA LiveOptimizer ==
  ASSUME TypeOK, LiveHandles, RunOptimizer
  PROVE  /\ LiveHandles'
         /\ \A n \in InProgram("opt") \cap Names : pool'[n].gen = mesh'.gen
<1>1. mesh \in Mesh /\ mesh' = OpenIfClosed(mesh) /\ pool \in [Names -> Tensor]
  BY DEF TypeOK, RunOptimizer
<1>2. PICK base, pl :
        /\ pl = PushPersistent("opt", pool, base, mesh'.gen)
        /\ pl \in [Names -> Tensor]
        /\ pool' = [n \in Names |->
             IF n \in Aliased /\ gradOut # <<>>
             THEN ReplaceHandle(pl[n], FromRuntime(version + 1, mesh'.gen))
             ELSE pl[n]]
  BY OptimizerPool
<1>3. ASSUME NEW n \in Names
      PROVE  /\ Live(pl[n], mesh')
             /\ n \in InProgram("opt") => pl[n].gen = mesh'.gen
  <2> DEFINE q == PushPersistent("opt", pool, base, OpenIfClosed(mesh).gen)
  <2>1. pl = q
    BY <1>1, <1>2
  <2>2. Live(pool[n], mesh)
    BY DEF LiveHandles
  <2>3. /\ Live(q[n], OpenIfClosed(mesh))
        /\ n \in InProgram("opt") => q[n].gen = OpenIfClosed(mesh).gen
    BY <1>1, <2>2, LivePush
  <2> HIDE DEF q
  <2> QED
    BY <1>1, <2>1, <2>3
<1>4. ASSUME NEW n \in Names
      PROVE  Live(pool'[n], mesh') /\ (n \in InProgram("opt") => pool'[n].gen = mesh'.gen)
  <2>1. CASE n \in Aliased /\ gradOut # <<>>
    <3>1. pool'[n] = ReplaceHandle(pl[n], FromRuntime(version + 1, mesh'.gen)) /\ pl[n] \in Tensor
      BY <1>2, <2>1
    <3>2. pool'[n].host = pl[n].host /\ pool'[n].gen = mesh'.gen
      BY <3>1, ReplaceFields
    <3>3. mesh'.open
      BY <1>1, LiveOpen DEF OpenIfClosed, Mesh
    <3> QED
      BY <1>3, <3>2, <3>3 DEF Live
  <2>2. CASE ~(n \in Aliased /\ gradOut # <<>>)
    <3>1. pool'[n] = pl[n]
      BY <1>2, <2>2
    <3> QED
      BY <1>3, <3>1
  <2> QED
    BY <2>1, <2>2
<1> QED
  BY <1>4 DEF LiveHandles

(* The host side leaves handles where they are.                            *)
LEMMA LiveHost ==
  ASSUME TypeOK, LiveHandles, UpdateHostWeights \/ TorchStep \/ LoadWeights
  PROVE  LiveHandles' /\ progOut' = progOut
<1>1. progOut' = progOut /\ mesh' = mesh
  BY DEF UpdateHostWeights, TorchStep, LoadWeights, HostWrite
<1>2. ASSUME NEW n \in Names PROVE Live(pool'[n], mesh)
  <2>1. pool[n] \in Tensor /\ Live(pool[n], mesh)
    BY DEF TypeOK, LiveHandles
  <2>2. CASE UpdateHostWeights
    <3>1. CASE n \in HostUpdated
      <4>1. pool'[n] = UpdateHostData(pool[n]) /\ OnDevice(pool[n])
        BY <2>2, <3>1, UpdateHostCopies DEF UpdateHostWeights
      <4> QED
        BY <2>1, <4>1, HostFields DEF Live, OnDevice
    <3>2. CASE n \notin HostUpdated
      BY <2>1, <2>2, <3>2 DEF UpdateHostWeights
    <3> QED
      BY <3>1, <3>2
  <2>3. ASSUME NEW S, HostWrite(S) PROVE Live(pool'[n], mesh)
    <3>1. version + 1 # Null
      BY NullAssumption DEF TypeOK
    <3> DEFINE t == [pool[n] EXCEPT !.host = version + 1]
    <3>2. pool'[n] = t \/ pool'[n] = pool[n]
      BY <2>3 DEF HostWrite
    <3>3. t.host = version + 1 /\ t.dev = pool[n].dev /\ t.gen = pool[n].gen
      BY <2>1, WriteFields
    <3> HIDE DEF t
    <3>4. Live(t, mesh)
      BY <2>1, <3>1, <3>3 DEF Live, OnDevice
    <3> QED
      BY <2>1, <3>2, <3>4
  <2> QED
    BY <2>2, <2>3 DEF TorchStep, LoadWeights
<1> QED
  BY <1>1, <1>2 DEF LiveHandles

(* The remaining calls run nothing, and the device is configured only      *)
(* while no tensor of the pool is on it.                                   *)
LEMMA LiveOther ==
  ASSUME ReconfigureAnytime = FALSE, TypeOK, LiveHandles,
         \/ \E c \in returned, S \in SUBSET (1..NumGradInputs) : LossBackward(c, S)
         \/ BackwardRefused \/ StepRefused \/ ZeroGrad \/ ConfigureDevices
         \/ UNCHANGED vars
  PROVE  LiveHandles' /\ progOut' = progOut
<1>1. pool' = pool /\ progOut' = progOut
  BY DEF LossBackward, BackwardRefused, StepRefused, ZeroGrad, ConfigureDevices, vars
<1>2. mesh' = mesh \/ AllOnHost
  BY DEF LossBackward, BackwardRefused, StepRefused, ZeroGrad, ConfigureDevices, vars
<1> QED
  BY <1>1, <1>2 DEF LiveHandles, Live, AllOnHost

(* What a step does to handles and to the outputs of programs.             *)
LEMMA LiveStep ==
  ASSUME ReconfigureAnytime = FALSE, TypeOK, LiveHandles, [Next]_vars
  PROVE  /\ LiveHandles'
         /\ \A pg \in Programs :
              progOut'[pg] \notin {progOut[pg], Null} =>
                \A n \in InProgram(pg) : pool'[n].gen = mesh'.gen
<1>1. \A pg \in Programs : InProgram(pg) \subseteq Names
  BY ConstantsAssumption DEF InProgram
<1>2. ASSUME NEW pg \in Programs, NEW v, progOut' = [progOut EXCEPT ![pg] = v],
             \A n \in InProgram(pg) \cap Names : pool'[n].gen = mesh'.gen
      PROVE  \A q \in Programs : progOut'[q] \notin {progOut[q], Null} =>
                \A n \in InProgram(q) : pool'[n].gen = mesh'.gen
  BY <1>1, <1>2 DEF TypeOK
<1>3. ASSUME NEW c \in InputCounts, NEW b \in BOOLEAN, Call(c, b)
      PROVE  /\ LiveHandles'
             /\ \A q \in Programs : progOut'[q] \notin {progOut[q], Null} =>
                  \A n \in InProgram(q) : pool'[n].gen = mesh'.gen
  <2>1. PICK v : progOut' = [progOut EXCEPT !["fwd"] = v]
    BY <1>3 DEF Call
  <2>2. /\ LiveHandles'
        /\ \A n \in InProgram("fwd") \cap Names : pool'[n].gen = mesh'.gen
    BY <1>3, LiveCall
  <2> QED
    BY <1>2, <2>1, <2>2 DEF Programs
<1>4. ASSUME Backward \/ BackwardMismatch
      PROVE  /\ LiveHandles'
             /\ \A q \in Programs : progOut'[q] \notin {progOut[q], Null} =>
                  \A n \in InProgram(q) : pool'[n].gen = mesh'.gen
  <2>1. PICK v : progOut' = [progOut EXCEPT !["bwd"] = v]
    BY <1>4 DEF Backward, BackwardMismatch
  <2>2. /\ LiveHandles'
        /\ \A n \in InProgram("bwd") \cap Names : pool'[n].gen = mesh'.gen
    BY <1>4, LiveBackward DEF Backward, BackwardMismatch
  <2> QED
    BY <1>2, <2>1, <2>2 DEF Programs
<1>5. ASSUME Step \/ StepMismatch
      PROVE  /\ LiveHandles'
             /\ \A q \in Programs : progOut'[q] \notin {progOut[q], Null} =>
                  \A n \in InProgram(q) : pool'[n].gen = mesh'.gen
  <2>1. PICK v : progOut' = [progOut EXCEPT !["opt"] = v]
    BY <1>5 DEF Step, StepMismatch
  <2>2. /\ LiveHandles'
        /\ \A n \in InProgram("opt") \cap Names : pool'[n].gen = mesh'.gen
    BY <1>5, LiveOptimizer DEF Step, StepMismatch
  <2> QED
    BY <1>2, <2>1, <2>2 DEF Programs
<1>6. CASE UpdateHostWeights \/ TorchStep \/ LoadWeights
  BY <1>6, LiveHost
<1>7. CASE \/ \E c \in returned, S \in SUBSET (1..NumGradInputs) : LossBackward(c, S)
           \/ BackwardRefused \/ StepRefused \/ ZeroGrad \/ ConfigureDevices
           \/ UNCHANGED vars
  BY <1>7, LiveOther
<1> QED
  BY <1>3, <1>4, <1>5, <1>6, <1>7 DEF Next

(* No program ever runs on a persistent tensor whose handle belongs to a   *)
(* mesh device that is closed, whatever the order of calls, detaches and   *)
(* in-place updates, as long as the device is not configured anew while    *)
(* tensors are on it.                                                      *)
THEOREM NoStaleHandles ==
  ASSUME ReconfigureAnytime = FALSE
  PROVE  Spec => RunsOnLiveHandles
<1>1. Init => LiveHandles
  BY LiveInit
<1>2. TypeOK /\ LiveHandles /\ [Next]_vars => LiveHandles'
  BY LiveStep
<1>3. TypeOK /\ LiveHandles /\ [Next]_vars =>
        \A pg \in Programs :
          progOut'[pg] \notin {progOut[pg], Null} =>
            \A n \in InProgram(pg) : pool'[n].gen = mesh'.gen
  BY LiveStep
<1> QED
  BY <1>1, <1>2, <1>3, TypeCorrect, PTL DEF Spec, RunsOnLiveHandles

-----------------------------------------------------------------------------
(* update_host_weights.                                                    *)

(* update_host_weights that returns normally leaves every torch parameter  *)
(* with the version last written, by torch or by a step on the device, if  *)
(* each side writes the weights only while it owns them.                   *)
THEOREM HostSeesLatestWeights ==
  ASSUME CrossWrites = FALSE
  PROVE  Spec => HostSeesWeights
<1>1. ASSUME TypeOK, WeightsCoherent, UpdateHostWeights, result' = "ok"
      PROVE  \A p \in Trainable : pool'[p].host = written[p]
  <2> SUFFICES ASSUME NEW p \in Trainable PROVE pool'[p].host = written[p]
    OBVIOUS
  <2>1. mode # "host" /\ p \in HostUpdated
    BY <1>1 DEF UpdateHostWeights
  <2>2. pool'[p].host = pool[p].dev /\ OnDevice(pool[p])
    BY <1>1, <2>1, TrainableNames, UpdateHostCopies
  <2> QED
    BY <1>1, <2>1, <2>2 DEF WeightsCoherent
<1>2. TypeOK /\ WeightsCoherent /\ UpdateHostWeights /\ result' = "ok" =>
        \A p \in Trainable : pool'[p].host = written[p]
  BY <1>1
<1> QED
  BY <1>2, TypeCorrect, Coherence, PTL DEF HostSeesWeights

-----------------------------------------------------------------------------
(* The tensors a backward run takes.                                       *)

(* What the Python side holds between two calls stems from the last        *)
(* forward call: its inputs, the intermediates if it succeeded, and the    *)
(* weights on the device unless a device step has replaced them since.     *)
FromLastCall ==
  /\ \A n \in Names : pool[n].host # Null
  /\ fwd.call = calls /\ fwd.ver <= version
  /\ fwd.ok => calls > 0
  /\ \A i \in DOMAIN inputs : inputs[i].dev = calls
  /\ fwd.ok => \A i \in DOMAIN inter : inter[i].dev = calls
  /\ calls > 0 => \A p \in Trainable : OnDevice(pool[p])
  /\ calls > 0 => \/ WeightsOf(pool) = fwd.weights
                  \/ mode = "device" /\ version # fwd.ver

(* A group of n tensors, of which those of S are to be on the device.      *)
Pushable(ts, S, n) == ts \in [1..n -> Tensor] /\ S \subseteq 1..n

(* A group of tensors that are all on the device is passed as it is, and   *)
(* what is pushed shows the host contents.                                 *)
LEMMA PushGroupCopies ==
  ASSUME NEW pg, NEW n \in Nat, NEW ts, NEW S, Pushable(ts, S, n), NEW base, NEW g,
         NEW i \in 1..n
  PROVE  PushGroup(pg, ts, S, base, g)[i].dev =
           IF i \in S /\ ~OnDevice(ts[i]) THEN ts[i].host ELSE ts[i].dev
<1> DEFINE l == GetLayout(pg, base + Cardinality({k \in ToPush(ts, S) : k < i}))
<1>1. PushGroup(pg, ts, S, base, g)[i] = IF i \in ToPush(ts, S) THEN ToDevice(ts[i], l, g) ELSE ts[i]
  BY DEF PushGroup, Pushable
<1>2. ts[i] \in Tensor
  BY DEF Pushable
<1>3. ToDevice(ts[i], l, g).dev = ts[i].host
  <2> HIDE DEF l
  <2> QED BY <1>2, ToDeviceFields
<1> HIDE DEF l
<1> QED
  BY <1>1, <1>3 DEF ToPush

(* Before the first call there is nothing to take.                         *)
LEMMA LastCallInit == Init => FromLastCall
<1> SUFFICES ASSUME Init PROVE FromLastCall
  OBVIOUS
<1>1. \A n \in Names : pool[n].host # Null
  BY NullAssumption DEF Init, InitTensor, FromHost
<1>2. fwd.call = 0 /\ fwd.ver = 0 /\ ~fwd.ok /\ calls = 0 /\ version = 0
  BY DEF Init
<1>3. inputs = <<>>
  BY DEF Init
<1> QED
  BY <1>1, <1>2, <1>3 DEF FromLastCall

(* __call__ starts anew, also when it fails after the inputs are pushed.   *)
LEMMA LastCallCall ==
  ASSUME TypeOK, FromLastCall, NEW c \in InputCounts, NEW b \in BOOLEAN, Call(c, b)
  PROVE  FromLastCall'
<1> DEFINE new == [i \in 1..c |-> FromHost(calls + 1, b)]
           good == Fits(new, 1..c, NumInputs)
<1>1. /\ calls' = calls + 1 /\ version' = version /\ mode' = mode
      /\ fwd' = [call |-> calls + 1, ok |-> good, ver |-> version, weights |-> WeightsOf(pool')]
  BY DEF Call
<1>2. calls + 1 \in Nat /\ calls + 1 > 0 /\ calls + 1 # Null /\ version \in Nat
  BY NullAssumption DEF TypeOK
<1>3. \A n \in Names : pool'[n].host # Null
  <2> SUFFICES ASSUME NEW n \in Names PROVE pool'[n].host # Null
    OBVIOUS
  <2>1. PICK base : pool' = PushPersistent("fwd", WeightsForCall, base, mesh'.gen)
    BY CallPool
  <2>2. WeightsForCall \in [Names -> Tensor] /\ pool[n] \in Tensor
    BY CallPool DEF TypeOK
  <2>3. WeightsForCall[n].host = pool[n].host
    BY <2>2, CallPool, HostFields
  <2>4. pool'[n].host = WeightsForCall[n].host
    BY <2>1, <2>2, PushPersistentCopies
  <2> QED
    BY <2>3, <2>4 DEF FromLastCall
<1>4. \A p \in Trainable : OnDevice(pool'[p])
  <2> SUFFICES ASSUME NEW p \in Trainable PROVE OnDevice(pool'[p])
    OBVIOUS
  <2>1. pool[p].host # Null
    BY TrainableNames DEF FromLastCall
  <2>2. pool'[p].dev = IF mode = "host" \/ ~OnDevice(pool[p]) THEN pool[p].host ELSE pool[p].dev
    BY CallCopies
  <2> QED
    BY <2>1, <2>2 DEF OnDevice
<1>5. \A i \in DOMAIN inputs' : inputs'[i].dev = calls + 1
  <2>1. inputs' = PushGroup("fwd", new, 1..c, 0, mesh'.gen) /\ c \in Nat
    BY ConstantsAssumption DEF Call
  <2>2. DOMAIN inputs' = 1..c
    BY <2>1 DEF PushGroup
  <2>3. new \in [1..c -> Tensor]
    BY <1>2, FreshTensors
  <2>4. ASSUME NEW i \in 1..c
        PROVE  new[i].host = calls + 1 /\ ~OnDevice(new[i])
    BY DEF FromHost, OnDevice
  <2> HIDE DEF new
  <2>5. Pushable(new, 1..c, c)
    BY <2>3 DEF Pushable
  <2> QED
    BY <2>1, <2>2, <2>4, <2>5, PushGroupCopies
<1>6. good => \A i \in DOMAIN inter' : inter'[i].dev = calls + 1
  <2> SUFFICES ASSUME good PROVE \A i \in DOMAIN inter' : inter'[i].dev = calls + 1
    OBVIOUS
  <2>1. PICK g : inter' = [i \in 1..NumIntermediates |-> FromRuntime(calls + 1, g)]
    BY DEF Call
  <2> QED
    BY <2>1 DEF FromRuntime
<1> HIDE DEF good
<1>7. /\ fwd'.call = calls + 1 /\ fwd'.ver = version /\ (fwd'.ok <=> good)
      /\ fwd'.weights = WeightsOf(pool')
  BY <1>1
<1> QED
  BY <1>1, <1>2, <1>3, <1>4, <1>5, <1>6, <1>7 DEF FromLastCall

(* What the backward program takes of the last forward call it leaves      *)
(* there: intermediates, inputs and weights are on the device already.     *)
LEMMA LastCallBackward ==
  ASSUME TypeOK, FromLastCall, BackwardReady, RunBackward
  PROVE  /\ \A n \in Names : pool'[n].host # Null
         /\ \A i \in DOMAIN inputs' : inputs'[i].dev = calls
         /\ fwd.ok => \A i \in DOMAIN inter' : inter'[i].dev = calls
         /\ calls > 0 => \A p \in Trainable : pool'[p].dev = pool[p].dev
<1>1. calls # Null
  BY NullAssumption DEF TypeOK
<1>2. \A n \in Names : pool'[n].host # Null
  BY RunBackwardCopies DEF FromLastCall
<1>3. \A i \in DOMAIN inputs' : inputs'[i].dev = calls
  <2>1. PICK base, g : inputs' = PushGroup("bwd", inputs, BwdInputs, base, g)
    BY DEF RunBackward
  <2>2. /\ Len(inputs) \in Nat /\ DOMAIN inputs = 1..Len(inputs)
        /\ inputs \in [1..Len(inputs) -> Tensor] /\ BwdInputs \in SUBSET (1..Len(inputs))
    BY DEF TypeOK, BackwardReady
  <2>3. DOMAIN inputs' = 1..Len(inputs)
    BY <2>1, <2>2 DEF PushGroup
  <2>4. ASSUME NEW i \in 1..Len(inputs) PROVE inputs[i].dev = calls /\ OnDevice(inputs[i])
    BY <1>1, <2>2 DEF FromLastCall, OnDevice
  <2>5. ASSUME NEW i \in 1..Len(inputs) PROVE inputs'[i].dev = inputs[i].dev
    <3>1. Pushable(inputs, BwdInputs, Len(inputs)) /\ Len(inputs) \in Nat
      BY <2>2 DEF Pushable
    <3>2. PushGroup("bwd", inputs, BwdInputs, base, g)[i].dev =
            IF i \in BwdInputs /\ ~OnDevice(inputs[i]) THEN inputs[i].host ELSE inputs[i].dev
      BY <3>1, PushGroupCopies
    <3> QED
      BY <2>1, <2>4, <3>2
  <2> QED
    BY <2>3, <2>4, <2>5
<1>4. ASSUME fwd.ok PROVE \A i \in DOMAIN inter' : inter'[i].dev = calls
  <2>1. PICK base, g : inter' = PushGroup("bwd", inter, DOMAIN inter, base, g)
    BY DEF RunBackward
  <2>2. /\ Len(inter) \in Nat /\ DOMAIN inter = 1..Len(inter)
        /\ inter \in [1..Len(inter) -> Tensor]
    BY DEF TypeOK
  <2>3. DOMAIN inter' = 1..Len(inter)
    BY <2>1, <2>2 DEF PushGroup
  <2>4. ASSUME NEW i \in 1..Len(inter) PROVE inter[i].dev = calls /\ OnDevice(inter[i])
    BY <1>1, <1>4, <2>2 DEF FromLastCall, OnDevice
  <2>5. Pushable(inter, DOMAIN inter, Len(inter))
    BY <2>2 DEF Pushable
  <2> QED
    BY <2>1, <2>2, <2>3, <2>4, <2>5, PushGroupCopies
<1>5. calls > 0 => \A p \in Trainable : pool'[p].dev = pool[p].dev
  BY TrainableNames, RunBackwardCopies DEF FromLastCall
<1> QED
  BY <1>2, <1>3, <1>4, <1>5

(* An optimizer run pushes weights and replaces them all in one step.      *)
LEMMA LastCallStep ==
  ASSUME TypeOK, FromLastCall, Step \/ StepMismatch
  PROVE  FromLastCall'
<1>1. /\ mode' = mode /\ mode = "device" /\ calls' = calls /\ fwd' = fwd
      /\ inputs' = inputs /\ inter' = inter
  BY DEF Step, StepMismatch, optimizer_on_device
<1>2. /\ version \in Nat /\ version + 1 # Null /\ fwd.ver \in Nat
  BY NullAssumption DEF TypeOK
<1>3. ASSUME NEW n \in Names PROVE pool'[n].host # Null
  <2>1. PICK base, pl :
        /\ pl = PushPersistent("opt", pool, base, mesh'.gen)
        /\ pl \in [Names -> Tensor]
        /\ pool' = [m \in Names |->
             IF m \in Aliased /\ gradOut # <<>>
             THEN ReplaceHandle(pl[m], FromRuntime(version + 1, mesh'.gen))
             ELSE pl[m]]
    BY OptimizerPool DEF Step, StepMismatch
  <2>2. pl[n].host = pool[n].host /\ pl[n] \in Tensor
    <3>1. pool \in [Names -> Tensor]
      BY DEF TypeOK
    <3>2. PushPersistent("opt", pool, base, mesh'.gen)[n].host = pool[n].host
      BY <3>1, ToDeviceFields DEF PushPersistent
    <3> QED
      BY <2>1, <3>2
  <2>3. ReplaceHandle(pl[n], FromRuntime(version + 1, mesh'.gen)).host = pl[n].host
    BY <2>2, ReplaceFields
  <2>4. pool'[n].host = pl[n].host
    BY <2>1, <2>3
  <2> QED
    BY <2>2, <2>4 DEF FromLastCall
<1>4. CASE Step
  <2>1. version' = version + 1
    BY <1>4 DEF Step
  <2>2. \A p \in Trainable : OnDevice(pool'[p])
    BY <1>2, <1>4, StepCopies DEF OnDevice
  <2> QED
    BY <1>1, <1>2, <1>3, <2>1, <2>2 DEF FromLastCall
<1>5. CASE StepMismatch
  <2>1. version' = version
    BY <1>5 DEF StepMismatch
  <2>2. calls > 0 => \A p \in Trainable : pool'[p].dev = pool[p].dev
    BY <1>5, TrainableNames, StepMismatchCopies DEF FromLastCall
  <2>3. calls > 0 => WeightsOf(pool') = WeightsOf(pool)
    BY <2>2 DEF WeightsOf
  <2>4. calls > 0 => \A p \in Trainable : OnDevice(pool'[p])
    BY <2>2 DEF FromLastCall, OnDevice
  <2> QED
    BY <1>1, <1>2, <1>3, <2>1, <2>3, <2>4 DEF FromLastCall
<1> QED
  BY <1>4, <1>5

(* The host side reaches host copies only.                                 *)
LEMMA LastCallHost ==
  ASSUME TypeOK, FromLastCall, UpdateHostWeights \/ TorchStep \/ LoadWeights
  PROVE  FromLastCall'
<1>1. /\ mode' = mode /\ calls' = calls /\ fwd' = fwd /\ inputs' = inputs /\ inter' = inter
  BY DEF UpdateHostWeights, TorchStep, LoadWeights, HostWrite
<1>2. /\ version \in Nat /\ version + 1 # Null /\ fwd.ver \in Nat
  BY NullAssumption DEF TypeOK
<1>3. version' = version \/ (version' = version + 1 /\ ~UpdateHostWeights)
  BY DEF UpdateHostWeights, TorchStep, LoadWeights, HostWrite
<1>4. ASSUME NEW n \in Names
      PROVE  pool'[n].host # Null /\ pool'[n].dev = pool[n].dev
  <2>1. CASE UpdateHostWeights
    BY <2>1, UpdateHostCopies DEF FromLastCall, OnDevice
  <2>2. ASSUME NEW S, HostWrite(S)
        PROVE  pool'[n].host # Null /\ pool'[n].dev = pool[n].dev
    BY <1>2, <2>2, HostWriteCopies DEF FromLastCall
  <2> QED
    BY <2>1, <2>2 DEF TorchStep, LoadWeights
<1>5. /\ WeightsOf(pool') = WeightsOf(pool)
      /\ \A p \in Trainable : OnDevice(pool'[p]) <=> OnDevice(pool[p])
  BY <1>4, TrainableNames DEF WeightsOf, OnDevice
<1>6. /\ fwd.ver <= version' 
      /\ version # fwd.ver => version' # fwd.ver
  BY <1>2, <1>3 DEF FromLastCall
<1> QED
  BY <1>1, <1>4, <1>5, <1>6 DEF FromLastCall

(* Every call keeps what the Python side holds in step with the last       *)
(* forward call.                                                           *)
LEMMA LastCallNext ==
  ASSUME TypeOK, FromLastCall, [Next]_vars
  PROVE  FromLastCall'
<1>1. CASE Backward \/ BackwardMismatch
  <2>1. /\ BackwardReady /\ RunBackward /\ mode' = mode /\ calls' = calls
        /\ version' = version /\ fwd' = fwd
    BY <1>1 DEF Backward, BackwardMismatch
  <2>2. calls > 0 => /\ WeightsOf(pool') = WeightsOf(pool)
                     /\ \A p \in Trainable : OnDevice(pool'[p]) <=> OnDevice(pool[p])
    BY <2>1, LastCallBackward DEF WeightsOf, OnDevice
  <2> QED
    BY <2>1, <2>2, LastCallBackward DEF FromLastCall
<1>2. CASE \/ \E c \in returned, S \in SUBSET (1..NumGradInputs) : LossBackward(c, S)
           \/ BackwardRefused \/ StepRefused \/ ZeroGrad \/ ConfigureDevices
           \/ UNCHANGED vars
  <2>1. /\ mode' = mode /\ calls' = calls /\ fwd' = fwd /\ inputs' = inputs /\ inter' = inter
        /\ pool' = pool /\ version' = version
    BY <1>2 DEF LossBackward, BackwardRefused, StepRefused, ZeroGrad, ConfigureDevices, vars
  <2> QED
    BY <2>1 DEF FromLastCall, WeightsOf, OnDevice
<1> QED
  BY <1>1, <1>2, LastCallCall, LastCallStep, LastCallHost DEF Next

(* backward() after a successful forward call takes its intermediates,     *)
(* inputs and weights from that call, whatever was called in between and   *)
(* whoever wrote weights: only a step on the device replaces the weights   *)
(* it runs with.  No assumption is made on what the user does.             *)
THEOREM BackwardTakesLastCall == Spec => BackwardCoherent
<1>1. Init => FromLastCall
  BY LastCallInit
<1>2. TypeOK /\ FromLastCall /\ [Next]_vars => FromLastCall'
  BY LastCallNext
<1>3. ASSUME TypeOK, FromLastCall, [Next]_vars, backwards' # backwards, fwd.ok
      PROVE  /\ \A i \in DOMAIN inter' : inter'[i].dev = fwd.call
             /\ \A i \in BwdInputs : inputs'[i].dev = fwd.call
             /\ \/ WeightsOf(pool') = fwd.weights
                \/ mode = "device" /\ version # fwd.ver
  <2>1. Backward
    BY <1>3 DEF Next, Call, LossBackward, BackwardRefused, BackwardMismatch, Step, StepMismatch,
                StepRefused, UpdateHostWeights, TorchStep, HostWrite, ZeroGrad, LoadWeights,
                ConfigureDevices, vars
  <2>2. BackwardReady /\ RunBackward
    BY <2>1 DEF Backward
  <2>3. fwd.call = calls /\ calls > 0
    BY <1>3 DEF FromLastCall
  <2>4. WeightsOf(pool') = WeightsOf(pool)
    BY <1>3, <2>2, <2>3, LastCallBackward DEF WeightsOf
  <2>5. BwdInputs \subseteq DOMAIN inputs'
    BY <2>2 DEF BackwardReady, RunBackward, PushGroup
  <2>6. \/ WeightsOf(pool) = fwd.weights
        \/ mode = "device" /\ version # fwd.ver
    BY <1>3, <2>3 DEF FromLastCall
  <2> QED
    BY <1>3, <2>2, <2>3, <2>4, <2>5, <2>6, LastCallBackward
<1>4. TypeOK /\ FromLastCall /\ [Next]_vars =>
        ( /\ backwards' # backwards
          /\ fwd.ok
          /\ \A i \in 1..NumGradInputs : gradIn[i].host = fwd.call
          => /\ \A i \in DOMAIN inter' : inter'[i].dev = fwd.call
             /\ \A i \in BwdInputs : inputs'[i].dev = fwd.call
             /\ \/ WeightsOf(pool') = fwd.weights
                \/ mode = "device" /\ version # fwd.ver )
  BY <1>3
<1> QED
  BY <1>1, <1>2, <1>4, TypeCorrect, PTL DEF Spec, BackwardCoherent

-----------------------------------------------------------------------------
(* The layouts the forward program has pushed.                             *)

(* A pool tensor has no forward layout but that of its own slot.           *)
OwnSlot(n, t) == t.layout.pg = "fwd" => t.layout.idx = NumInputs + SlotOf("fwd", n)

(* The persistent loop gives each tensor it pushes the layout of its slot, *)
(* if it starts after all the activation inputs.                           *)
LEMMA SlotPush ==
  ASSUME NEW pg, NEW pl \in [Names -> Tensor], NEW base, NEW g, NEW n \in Names,
         OwnSlot(n, pl[n]), pg = "fwd" => base = NumInputs
  PROVE  OwnSlot(n, PushPersistent(pg, pl, base, g)[n])
<1> DEFINE l == GetLayout(pg, base + SlotOf(pg, n))
<1>1. PushPersistent(pg, pl, base, g)[n] =
        IF n \in InProgram(pg) /\ ~OnDevice(pl[n]) THEN ToDevice(pl[n], l, g) ELSE pl[n]
  BY DEF PushPersistent
<1>2. OwnSlot(n, ToDevice(pl[n], l, g))
  <2>1. ToDevice(pl[n], l, g).layout = l
    <3> HIDE DEF l
    <3> QED BY ToDeviceFields
  <2>2. l.pg = pg /\ l.idx = base + SlotOf(pg, n)
    BY DEF GetLayout
  <2> HIDE DEF l
  <2> QED
    BY <2>1, <2>2 DEF OwnSlot
<1> HIDE DEF l
<1> QED
  BY <1>1, <1>2

(* On fresh inputs, all still on the host, input_idx advances over each.   *)
LEMMA FreshInputs ==
  ASSUME NEW n \in Nat, NEW ts, \A i \in 1..n : ~OnDevice(ts[i])
  PROVE  /\ ToPush(ts, 1..n) = 1..n /\ Cardinality(1..n) = n
         /\ \A i \in 1..n : Cardinality({k \in 1..n : k < i}) = i - 1
<1>1. ToPush(ts, 1..n) = 1..n
  BY DEF ToPush
<1>2. ASSUME NEW k \in Nat PROVE Cardinality(1..k) = k
  BY FS_Interval
<1>3. ASSUME NEW i \in 1..n PROVE Cardinality({k \in 1..n : k < i}) = i - 1
  <2>1. {k \in 1..n : k < i} = 1..(i - 1) /\ i - 1 \in Nat
    OBVIOUS
  <2> QED
    BY <1>2, <2>1
<1> QED
  BY <1>1, <1>2, <1>3

(* __call__ with the inputs the program has.                               *)
LEMMA LayoutCall ==
  ASSUME TypeOK, ForwardLayout, NumInputs \in Nat, NEW b \in BOOLEAN, Call(NumInputs, b),
         NumInputs \in InputCounts
  PROVE  ForwardLayout'
<1> DEFINE new == [i \in 1..NumInputs |-> FromHost(calls + 1, b)]
<1>1. /\ ToPush(new, 1..NumInputs) = 1..NumInputs /\ Cardinality(1..NumInputs) = NumInputs
      /\ \A i \in 1..NumInputs : Cardinality({k \in 1..NumInputs : k < i}) = i - 1
  <2>1. \A i \in 1..NumInputs : ~OnDevice(new[i])
    BY DEF FromHost, OnDevice
  <2> HIDE DEF new
  <2> QED
    BY <2>1, FreshInputs
<1>2. ASSUME NEW n \in Names PROVE OwnSlot(n, pool'[n])
  <2>1. PICK base \in Nat :
          /\ base = Cardinality(ToPush(new, 1..NumInputs))
          /\ pool' = PushPersistent("fwd", WeightsForCall, base, mesh'.gen)
    BY CallPool
  <2>2. base = NumInputs
    BY <1>1, <2>1
  <2>3. WeightsForCall \in [Names -> Tensor] /\ pool[n] \in Tensor
    BY CallPool DEF TypeOK
  <2>4. OwnSlot(n, pool[n])
    BY DEF ForwardLayout, OwnSlot
  <2>5. OwnSlot(n, DetachFromDevice(pool[n]))
    BY <2>3, HostFields DEF OwnSlot, NoLayout
  <2>6. OwnSlot(n, WeightsForCall[n])
    BY <2>4, <2>5, CallPool
  <2> QED
    BY <2>1, <2>2, <2>3, <2>6, SlotPush
<1>3. ASSUME NEW i \in DOMAIN inputs' PROVE inputs'[i].layout.idx = i - 1
  <2>1. inputs' = PushGroup("fwd", new, 1..NumInputs, 0, mesh'.gen)
    BY DEF Call
  <2>2. i \in 1..NumInputs
    BY <2>1 DEF PushGroup
  <2>3. new[i] \in Tensor
    BY <2>2, FreshTensors DEF TypeOK
  <2> DEFINE c == Cardinality({k \in ToPush(new, 1..NumInputs) : k < i})
             l == GetLayout("fwd", 0 + c)
  <2>4. inputs'[i] = ToDevice(new[i], l, mesh'.gen)
    BY <1>1, <2>1, <2>2 DEF PushGroup
  <2>5. c = i - 1
    BY <1>1, <2>2
  <2>6. l.idx = i - 1
    <3> HIDE DEF c
    <3> QED BY <2>2, <2>5 DEF GetLayout
  <2>7. inputs'[i].layout = l
    <3> HIDE DEF new, l
    <3> QED BY <2>3, <2>4, ToDeviceFields
  <2> HIDE DEF l
  <2> QED
    BY <2>6, <2>7
<1> QED
  BY <1>2, <1>3 DEF ForwardLayout, OwnSlot

(* The other programs push layouts of their own, and the host side none.   *)
LEMMA LayoutOther ==
  ASSUME TypeOK, ForwardLayout, [Next]_vars, NEW n \in Names,
         ~\E c \in InputCounts, fits \in BOOLEAN : Call(c, fits)
  PROVE  OwnSlot(n, pool'[n])
<1>1. OwnSlot(n, pool[n]) /\ pool[n] \in Tensor /\ pool \in [Names -> Tensor]
  BY DEF ForwardLayout, OwnSlot, TypeOK
<1>2. CASE Backward \/ BackwardMismatch
  <2>1. PICK base : pool' = PushPersistent("bwd", pool, base, mesh'.gen)
    BY <1>2, BackwardPool DEF Backward, BackwardMismatch
  <2>2. "bwd" # "fwd"
    OBVIOUS
  <2> QED
    BY <1>1, <2>1, <2>2, SlotPush
<1>3. CASE Step \/ StepMismatch
  <2>1. PICK base, pl :
        /\ pl = PushPersistent("opt", pool, base, mesh'.gen)
        /\ pl \in [Names -> Tensor]
        /\ pool' = [m \in Names |->
             IF m \in Aliased /\ gradOut # <<>>
             THEN ReplaceHandle(pl[m], FromRuntime(version + 1, mesh'.gen))
             ELSE pl[m]]
    BY <1>3, OptimizerPool DEF Step, StepMismatch
  <2>2. "opt" # "fwd"
    OBVIOUS
  <2>3. OwnSlot(n, pl[n]) /\ pl[n] \in Tensor
    BY <1>1, <2>1, <2>2, SlotPush
  <2>4. OwnSlot(n, ReplaceHandle(pl[n], FromRuntime(version + 1, mesh'.gen)))
    BY <2>3, ReplaceFields DEF OwnSlot, OutLayout
  <2> QED
    BY <2>1, <2>3, <2>4
<1>4. CASE UpdateHostWeights
  <2>1. OwnSlot(n, UpdateHostData(pool[n]))
    BY <1>1, HostFields DEF OwnSlot
  <2> QED
    BY <1>1, <1>4, <2>1 DEF UpdateHostWeights
<1>5. CASE TorchStep \/ LoadWeights
  <2>1. OwnSlot(n, [pool[n] EXCEPT !.host = version + 1])
    BY <1>1, WriteFields DEF OwnSlot
  <2>2. PICK S : HostWrite(S)
    BY <1>5 DEF TorchStep, LoadWeights
  <2> QED
    BY <1>1, <2>1, <2>2 DEF HostWrite
<1>6. CASE \/ \E c \in returned, S \in SUBSET (1..NumGradInputs) : LossBackward(c, S)
           \/ BackwardRefused \/ StepRefused \/ ZeroGrad \/ ConfigureDevices
           \/ UNCHANGED vars
  <2>1. pool' = pool
    BY <1>6 DEF LossBackward, BackwardRefused, StepRefused, ZeroGrad, ConfigureDevices, vars
  <2> QED
    BY <1>1, <2>1
<1> QED
  BY <1>2, <1>3, <1>4, <1>5, <1>6 DEF Next

(* Inputs pushed by the backward program have one of its layouts.          *)
LEMMA LayoutInputs ==
  ASSUME TypeOK, ForwardLayout, [Next]_vars, NEW i \in DOMAIN inputs',
         ~\E c \in InputCounts, fits \in BOOLEAN : Call(c, fits),
         inputs'[i].layout.pg = "fwd"
  PROVE  inputs'[i].layout.idx = i - 1
<1>1. CASE Backward \/ BackwardMismatch
  <2>1. PICK base, g : inputs' = PushGroup("bwd", inputs, BwdInputs, base, g)
    BY <1>1 DEF Backward, BackwardMismatch, RunBackward
  <2> DEFINE l == GetLayout("bwd", base + Cardinality({k \in ToPush(inputs, BwdInputs) : k < i}))
  <2>2. i \in DOMAIN inputs /\ inputs[i] \in Tensor
    BY <2>1 DEF PushGroup, TypeOK
  <2>3. \/ inputs'[i] = inputs[i]
        \/ inputs'[i] = ToDevice(inputs[i], l, g)
    BY <2>1, <2>2 DEF PushGroup
  <2>4. l.pg # "fwd"
    BY DEF GetLayout
  <2>5. ToDevice(inputs[i], l, g).layout = l
    <3> HIDE DEF l
    <3> QED BY <2>2, ToDeviceFields
  <2> HIDE DEF l
  <2>6. inputs'[i] = inputs[i]
    BY <2>3, <2>4, <2>5
  <2> QED
    BY <2>2, <2>6 DEF ForwardLayout
<1>2. CASE inputs' = inputs
  BY <1>2 DEF ForwardLayout
<1>3. inputs' = inputs \/ Backward \/ BackwardMismatch
  BY DEF Next, LossBackward, BackwardRefused, Step, StepMismatch, StepRefused,
         UpdateHostWeights, TorchStep, HostWrite, ZeroGrad, LoadWeights, ConfigureDevices, vars
<1> QED
  BY <1>1, <1>2, <1>3

(* Every tensor the forward program has pushed has the layout of its own   *)
(* slot, for any signature of the programs and any order of calls, device  *)
(* steps and detaches: the activation inputs first, then the persistent    *)
(* ones.  The caller passes as many inputs as the program has; with        *)
(* another number the count that input_idx starts the persistent inputs at *)
(* is off before the run is refused.                                       *)
THEOREM SlotLayouts ==
  ASSUME InputCounts \subseteq {NumInputs}
  PROVE  Spec => []ForwardLayout
<1>1. Init => ForwardLayout
  BY DEF Init, ForwardLayout, InitTensor, FromHost, NoLayout
<1>2. ASSUME TypeOK, ForwardLayout, [Next]_vars
      PROVE  ForwardLayout'
  <2>1. ASSUME NEW c \in InputCounts, NEW b \in BOOLEAN, Call(c, b)
        PROVE  ForwardLayout'
    <3>1. c = NumInputs /\ NumInputs \in Nat
      BY ConstantsAssumption
    <3> QED
      BY <1>2, <2>1, <3>1, LayoutCall
  <2>2. CASE ~\E c \in InputCounts, b \in BOOLEAN : Call(c, b)
    <3>1. \A n \in Names : OwnSlot(n, pool'[n])
      BY <1>2, <2>2, LayoutOther
    <3>2. \A i \in DOMAIN inputs' : inputs'[i].layout.pg = "fwd" => inputs'[i].layout.idx = i - 1
      BY <1>2, <2>2, LayoutInputs
    <3> QED
      BY <3>1, <3>2 DEF ForwardLayout, OwnSlot
  <2> QED
    BY <2>1, <2>2
<1>3. TypeOK /\ ForwardLayout /\ [Next]_vars => ForwardLayout'
  BY <1>2
<1> QED
  BY <1>1, <1>3, TypeCorrect, PTL DEF Spec
=============================================================================
