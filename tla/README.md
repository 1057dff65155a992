# A TLA+ model of TT-Forge-FE

TT-Forge-FE compiles models from PyTorch and other frameworks for Tenstorrent
hardware (`forge/csrc`, `forge/forge`) and runs them from Python. This project
models the parts whose correctness depends on the *order* of operations or on
several data structures that have to agree, rather than on numbers:

* the **runtime** that keeps weights, activations and gradients in two places,
  the host and the device, while a user trains or runs a compiled model;
* the **graph library** that every compiler pass rewrites, a graph kept in
  several redundant maps;
* the **compile pipeline**: the stages every op goes through, autograd and the
  split into three programs, and the passes that move tensor manipulations
  (TMs: reshape, transpose, squeeze, unsqueeze) through a graph;
* two **containers** of `src/utils`: the ordered hash table, and a blocking
  queue.

Compiler and runtime have no threads of their own; only the queue is meant for
several. What makes the rest hard is long sequences of legal calls, calls that
fail half-way, state that one call leaves for a much later one, rewrites that
enable each other, and programs that agree only by the order of a list.

## Inventory of the system

| Component | State | Operations | Interaction |
|---|---|---|---|
| Runtime tensors, `runtime/tensor.hpp` | host storage, runtime handle, description; `TensorPool` by name | construct, `to_device`, `to_torch`, `update_host_data`, `detach_from_device`, `update_tensor` | ref-counted, shared by Python objects, the pool and program states |
| Devices, `runtime/tt_device.*` | one open mesh device or none | open, close, `configure_devices` | opened by the first run; handles belong to the device they were made on |
| Program runs, `runtime/state.*`, `runtime/runtime.*` | program states (persistent inputs, outputs) for forward, backward, optimizer | `run_program` | pushes inputs, checks them, submits, keeps outputs |
| `CompiledModel`, `compiled_graph_state.py` | inputs, intermediates, gradient inputs and outputs | `__call__`, hooks, `backward`, `step`, `update_host_weights` | called by the user, by torch's autograd (hooks) and by `Optimizer.step` |
| Optimizers, `forge/optimizers.py` | parameters, their state tensors | `generate_op_trace`, `step` | its trace becomes the optimizer graph |
| Compile pipeline, `compile.py`, `forge_passes.cpp` | a context and the current stage | one function per stage, early stop at `compile_depth` | calls all of the passes below |
| Ops and shapes, `ops/`, `op/eval/forge/` | none | for each op: shape, decompositions, backward | called by decomposition, autograd and lowering |
| Decomposition and fusion, `passes/decomposing_context.cpp` and others | a sweep over the graph | apply rules until none makes ops | three passes of the pipeline |
| Autograd, `autograd/` | maps from forward nodes to gradients and recomputed ops | build the backward and optimizer graphs, recompute | calls each op's backward |
| Graph splitting, `passes/split_graph.cpp` | none | extract forward, backward and optimizer graphs | fixes the order of program inputs the runtime relies on |
| Inverse-op and commute passes, `passes/*inverse*`, `commute_utils.cpp` | none | search for inverse TMs, erase or insert them, repair ranks | a loop in `run_optimization_graph_passes` |
| Consteval, constant folding, nop removal, `passes/` | none | loops over rewrites until nothing changes | |
| Graph, `graph_lib/graph.*`, `edge.hpp`, `node_types.*` | nodes, name index, operand and user maps, attribute map, ordered inputs and outputs | add and remove nodes and edges, rename | used by every pass |
| Rewrites, `graph_lib/utils.*` | none | insert on edge, bypass, swap, fork an input, topological sort, consteval graphs, change of rank | built from graph operations |
| Lowering, `passes/lower_to_mlir.cpp` | a table of handlers | emit one TTIR op for each op | last stage |
| Utility containers, `src/utils` | buckets and values; a deque with a mutex | map, set and queue operations | no other file includes the queue |
| Data formats, frontends, verification | | | numeric or generated code |

### What makes each part correct

* Weights: whichever side wrote last, the next forward pass uses that value;
  nothing that fails or comes late may bring back an old one.
* Backward passes: gradients, intermediates and inputs belong to one forward
  call; a gradient is applied once, to the weights it was computed with.
* Device: a tensor is pushed with the layout of its own slot, and programs run
  only on handles of the device that is open.
* Graph: all maps describe the same graph; ports are unambiguous; there is no
  cycle; every edge has an attribute object of its own; names find their nodes;
  rewrites that are meant to change nothing change nothing.
* Training: the three programs, given each other's tensors in the order the
  runtime passes them, compute outputs, gradients and updates of the model.
* Decomposition: sweeps end, leave nothing to do, and bring no op where code
  asserts it never comes.
* TM passes: outputs keep their values and shapes, and the rounds end.
* Containers: the table is an ordered map or set and never probes for ever; the
  queue delivers each element once, in order, and wakes whoever can go on.

The hazards are listed with their lines in `PROJECT.json`.

## Modules

| Module | Models | Source |
|---|---|---|
| `TensorStore` | a tensor as a record, the operations on it, the mesh device | `runtime/tensor.hpp`, `tt_device.*` |
| `WeightStore` | abstract: one value per weight, reads see the last write | - |
| `CompiledModel` | the compiled model and its user | `compiled_graph_state.py`, `runtime/state.cpp`, `runtime/runtime.cpp` |
| `GraphLib` | the graph and its rewrites | `graph_lib/*`, callers in `passes/` |
| `ConstEvalForks` | splitting of forked constants, on top of `GraphLib` | `passes/consteval.cpp`, `graph_lib/utils.cpp` |
| `PythonOps`, `Ops` | the rules of each op: decompositions, gradients, shapes that raise; how the C++ registry dispatches to them | `op/eval/forge/*`, `ops/*` |
| `OpCompile` | the way of one op through all stages, on top of `Ops` | `compile.py`, `decomposing_context.cpp`, `forge_passes.cpp`, `lower_to_mlir.cpp` |
| `TrainingGraph` | a graph in forward, backward and optimizer epoch, inputs and outputs in order | `graph_lib/graph.cpp`, `utils.cpp` |
| `SplitGraph` | its split into three graphs | `passes/split_graph.cpp` |
| `Autograd` | building it: gradients, optimizer, recomputation | `autograd/*`, `optimizers.py` |
| `TracedModel` | the graph of a model before it is differentiated | `compile.py` |
| `TrainedModel` | running the three programs on each other's tensors | `compiled_graph_state.py` |
| `TmGraph` | a graph with shapes, what it computes, the utilities that change it | `graph_lib/utils.cpp`, `shape.cpp`, `op/eval/forge/tm.py` |
| `CommuteUtils` | what a TM may be moved past | `passes/commute_utils.cpp` |
| `TmRewrites` | erasing and inserting inverse TMs | `passes/erase_inverse_ops.cpp`, `insert_inverse_on_io.cpp` |
| `TmCleanups` | passes over reshapes, squeezes and ranks | `passes/erase_consecutive_reshape.cpp`, `explicate_unsqueeze.cpp`, `decompose_nd_reshape_split.cpp`, `erase_unnecessary_4d_tm_sequence.cpp` |
| `ConstantFolding` | folding of constants into matmuls and other constants | `passes/constant_folding.cpp` |
| `TmPasses` | all of them in the order of the pipeline | `forge_passes.cpp` |
| `OrderedMap`, `OrderedSet` | abstract: entries in insertion order, lookups find what is there | the interfaces `ordered_map.hpp`, `ordered_set.hpp` |
| `OrderedHash` | the robin hood table under both | `ordered_hash.hpp` |
| `ThreadSafeQueue` | pushing and popping threads, one mutex, one condition variable | `thread_safe_queue.hpp` |
| `*_proofs` | theorems about `CompiledModel`, `GraphLib`, `ConstEvalForks`, `OpCompile`, `OrderedHash`, `ThreadSafeQueue`, `TrainedModel` | |
| `MC*` | constants for TLC | |

Definitions whose comment starts with "Fault" or "Mutation" are variants of the
definition that follows, each with one plausible mistake. They are not part of
the specifications; substituting them shows that the properties can fail.

### CompiledModel

Contents of tensors are *stamps*: what a forward call touches carries the
number of the call, a gradient the number of the backward pass, a weight the
version of its last write. A copy is stale when its stamp is not the latest.

* `pool` is the `TensorPool`; a record has `host`, `dev`, `layout` and `gen`
  (which opening of the device the handle belongs to). `inputs`, `inter`,
  `gradIn`, `gradOut` are the attributes of the Python object. `progOut` is the
  output of each program state, `Null` after a run that cleared it and failed.
* `Call`, `Backward` (with `BackwardRefused` for its assertions and
  `BackwardMismatch` for inputs the binary rejects), `Step` (`StepRefused`,
  `StepMismatch`), `UpdateHostWeights`, `ConfigureDevices` are the methods.
  `LossBackward` is `loss.backward()` in torch, which fires the hooks of some
  outputs of any earlier call; `TorchStep`, `ZeroGrad` and `LoadWeights` are
  torch's writes to the shared parameters.
* `run_program` pushes before it checks: `PushGroup` and `PushPersistent` keep
  `input_idx` as the code does, and failing actions keep what was pushed.
* `fwd`, `written` and `gradAt` are history variables for the properties.
* The model has no attached module, and one compiled model exists.

Two constants open up uses the tests of the repository do not make.
`CrossWrites`: the user changes the host copy of weights the other side owns,
either by writing a torch parameter while its device copy is in use or by
calling `update_host_weights` with a torch optimizer, which overwrites torch's
new weights with the old device copy. `ReconfigureAnytime`: devices are
reconfigured while tensors are on them. Both are `FALSE` in the runs, and in
the assumptions of the theorems that need it; what happens with `TRUE` is under
"Known deviations".

### GraphLib

`nodes`, `name`, `byName`, `operands`, `users`, `attrs`, `tms` are the maps of
`graphlib::Graph`. An edge is its `EdgeUniqueId`. `attrs` maps an edge key to
the attribute *object*, named by the key it was created for, so that sharing
and stale entries are visible; entries are never erased and `insert` never
overwrites, as in the code. `AddNode`, `AddEdge`, `RemoveEdge`, `RemoveNode`,
`UpdateNodeName`, `AppendTm` are the operations, `InsertNodeOnEdge`,
`BypassNode` and `Swap` the rewrites. Failed assertions end compilation
(`status = "aborted"`) with whatever was done before them. `AddEdge` is only
used without making a cycle and nops get one operand: callers do so. `Swap` has
the guards of its one caller, `try_hoist_above_narrow`.

`ReAddEdges` lets rewrites use an edge key again that was used before. A bypass
does so in any case, it undoes inserts, unless a swap handed the attribute
object of the key on to another edge (`OwnsAttrs`; see "Known deviations").
`RenameTaken` lets `update_node_name` be called with a name in use. Both are
`FALSE` in the runs.

Left out: autograd, loopback and subgraph edges, producer ports other than 0,
micro-block orders, traversal contexts.

### ConstEvalForks

`SplitForks` is `split_consteval_input_forks` for one input, with
`clone_input_forking_edge` for each user in the order of `user_edges`, the
`remove_node` and the `set_name`. The code clones the forks of all inputs
before it removes any; the inputs do not share edges, so one action per input
gives the same graphs. An input with the tag `dont_consteval`, a trained
parameter, or a broadcast among its users is never split and simply does not
take part.

### Ops, OpCompile

`PythonOps` gives for each op, under its old string name, what one call of
`decompose`, `decompose_post_optimize`, `decompose_post_autograd` or `backward`
of its evaluator can do: nothing, make a set of ops, or raise. What attributes
and shapes decide is one bit: a *raw* op is one whose attributes make the rule
apply, a *plain* one is left alone. The rules are kept as the code keeps them,
a table per module and the table `op_to_module_map` that says which module has
an op. `Ops` is the C++ registry: for each op its
`OpType`, whether its namespace passes calls on to Python or has code of its
own, and the switches of `op.cpp` that forward only some calls.

`OpCompile` takes a graph with one op of the user through the stages of
`forge_compile_from_context`. The graph is the set of ops in it, with form and
epoch; `pending` and `removed` are the sweep of `decompose_tt_forge_graph`.
`Decompose` and `Backward` visit one op each; `Next_node` keeps the order the
sweep has where it matters, a forward op before the backward ops made of it.
`Fail` is any exception: the compilation ends. `emit_mlir` fails for ops
without a lowering handler.

### TrainingGraph, Autograd, SplitGraph, TrainedModel

A training graph keeps nodes in creation order, data operands in port order,
loopback edges and the ordered module inputs and outputs; tensors are single
numbers, so broadcasting and its `reduce_sum` are left out. `Autograd` has one
action per loop of `AutogradEngine::run`: `requires_grad` forward, gradients
from the outputs back with `combine_incoming_gradients`, `create_optimizer`,
the recomputed ops and their pruning; then `remove_nops` and the split. A model
is given with its graph: `TracedModel` makes it from a list of ops, and
`IsTraced` says what the proofs use of it. A node is named by a number and the
suffixes the code has appended to the name. `Only(s, S)` is the loop that keeps
what is in `S`; it and the recursion of `topological_sort` are recursive
functions, which the prover can read. An assertion of the code that fails shows
as a deadlock, which the run excludes. Four
ops stand for all: add reads the gradient only, multiply also the other
operand, exp its own result, nop is removed later. SGD has no state, Adam is
reduced to one mean.

`SplitGraph` builds the three graphs with their lists in the loop order of
`split_graph.cpp`; `TrainedModel` runs them as `compiled_graph_state.py` does,
by position. The properties compare the results with the model's value, its
chain rule over all paths, and its optimizer. This is one iteration without
failure; `CompiledModel` models what can happen between the calls.

### TmGraph, CommuteUtils, TmRewrites, TmCleanups, ConstantFolding, TmPasses

A node has an operator, a stored shape and two copies of its attributes
(`op_attrs` and `op_legacy_attrs`, which code reads in different places); edges
have ports and the creation ids that fix the order of users. `Value` computes
what an operator computes, on numbers modulo a prime, so that `Results` tells
whether a graph still means the same. Each rewrite is an operator from graph
and node to graph: searches along paths carry the two shapes of the code
(`commute_shape`, `clone_shape`), forks and joins are searched as the code
does. `ok` becomes false where an assertion fails.

`TmPasses` has one action per pass, which makes one rewrite at the first node
in topological order that has one, or ends the pass; `attempt` is
`attempt_update`. `hoist_unsqueeze_squeeze_to_reshape` collects nodes in an
unordered set: every order is explored.

### OrderedHash

`m_values` and `m_buckets` as in the code; insertion displaces richer entries,
erasing shifts back. A load factor is a percentage. `OrderedMap` and
`OrderedSet` say what callers rely on; `ImplementsContainers` maps the table to
both. Loops of the code are bounded walks that say whether they would have gone
on for ever, which is what `NeverHangs` reads.

Three constants admit cases in which the code breaks the invariants and which
the run excludes: `RangeErase` (`erase(first, last)` that empties a bucket
`backward_shift` has wrapped around, lines 711-726), `InsertInside` (an insert
in the middle whose position shift meets the entry being displaced),
`ShrinkToNone` (`rehash` of an empty table to no buckets).

Each loop is a recursive function over its steps, and the body of each an
operator (`insert_step`, `rehash_step`, `shift_step`, `range_step`), which the
proofs reason about. `HashAssumption` says of the constants that the number of
truncated hashes is a power of two, at least as large as any bucket count, so
that a truncated hash leads to the same bucket as the hash, and that a table can
be made with the bucket counts asked for.

### ThreadSafeQueue

What a thread does under the mutex is one action. A thread inside a call is
awake, about to test its condition, or in `blocked`; `notify_one` wakes any one
blocked thread, since pushing and popping threads wait on one condition
variable, and `WakeUp` is a spurious wake-up. Elements are numbered per
producer.

## Runs

| Run | Expected | Shows |
|---|---|---|
| `training` | pass | `CompiledModel` in all three modes: weights coherent, gradients applied once, layouts and handles right |
| `graph_rewrites` | pass | the maps of `GraphLib` stay in step, graphs acyclic, ports unique, nops without effect |
| `consteval_forks` | pass | `ForksSplit`, and the maps stay in step |
| `op_compile` | pass | decomposition of every op settles and ends, no asserted-never case is reached |
| `trained_model` | pass | outputs, gradients and updates of split programs are the model's |
| `tm_passes` | pass | moving, cancelling and folding TMs keeps values and shapes, and ends |
| `ordered_hash` | pass | the table implements an ordered map and set and never hangs |
| `thread_safe_queue` | pass | delivery once, in order, within the bound; nobody waits for ever |
| `grad_names` | violation | a parameter accumulates another's gradient |
| `less_lowering` | violation | `less` is lowered to less-or-equal |
| `nd_split` | violation | pairs of a last dimension become two contiguous slices |
| `matmul_fold` | violation | a product scaled for one user is scaled for both |

The violation runs each check one property that a comment, a test or another
definition of the source states; the findings in `PROJECT.json` quote it.

### Bounds

`training`: two weights (one of them not used by the backward program), one
constant of the forward program, one of the backward program, one optimizer
parameter; three forward calls, three backward passes, three weight versions,
two gradient inputs. Three of each is enough for "an iteration, a later one,
and one in between that failed"; two gradient inputs allow the hooks of two
different calls to mix. Input counts are always right in this run: a call with
a wrong count pushes the weights with wrong layouts and `ForwardLayout` does
not hold any more; wrong descriptions (`fits`) are explored.

`graph_rewrites`: a fork and a join, one node to add, five operations, at most
two TMs on an edge. Five operations are an add, an insert, a TM, a rewrite and
a removal.

`consteval_forks`: two constants, two users, two clones, four operations.

`op_compile`: every op the `forge.op` functions create, each alone, raw and
plain, in five configurations (inference, with optimization passes and
consteval, with an early stop, training, training with recomputation and
optimization passes). A rule reads no other node, so one op at a time reaches
every decomposition; the exception, `layernorm_bw`, is made from the op itself.

`trained_model`: all well-posed models of two inputs and two ops, and three
larger ones in which values have several uses; no optimizer, SGD and Adam, with
and without recomputation. Well posed: every value is used; no parameter is
itself an output (`autograd.cpp` 271); no two outputs are of one op
(`split_graph.cpp` 265-286 makes one output node for both); a loss is the only
output; every output depends on something that needs a gradient (see "Known
deviations"). `StepCorrect` is stated for models whose gradients are all of
parameters.

`tm_passes`, 1237 graphs: chains of up to three links, joins with a second
operand, forks, the patterns single passes look for, and eltwise ops with
constants; shapes of at most 24 elements around (2,3). Two TMs and what they are
moved past make a chain of three. Left out, because an assertion of the code
fails or the value changes there (listed below): chains without an eltwise op,
inner unsqueezes before a join, squeezes before a fork, branches that end in a
TM, products with a second user. Operands that are broadcast, concatenate,
select, averages and quantization on a path do not occur; the passes
`replace_incommutable_patterns`, `move_tm_through_requantize`,
`hoist_transforms_to_inputs` and `fuse_per_channel_ops` then find nothing to do
and are not modelled.

`ordered_hash`: five keys with hashes that collide and wrap around the end,
tables of at most 16 buckets, `NPROBES` 1 so that the rule for many probes is
met, two load factors; one value, since values are never looked at.

`thread_safe_queue`: two pushing and two popping threads, two pushes each,
unbounded and with one or two places. Two of each kind make a lost notification
and a wake-up of the wrong kind possible.

Deadlock is checked in `training`, where a user can always go on, and in
`thread_safe_queue`. It is off where a compilation ends or aborts, or where
operations are counted.

### Fairness

* `OpCompile`, `TmPasses`: the compiler is one thread that nothing it calls
  holds up, so it takes its next step: weak fairness of `Next`. In `TmPasses`
  it is written without `ENABLED`, as "again and again a step, or ended".
* `ThreadSafeQueue`: a thread inside a call that is not blocked goes on; weak
  fairness for each thread. No thread has to call, and nothing wakes a blocked
  thread but `notify_one`. `ElementsArrive` and `PushesReturn` are stated for
  unbounded queues, with a bound they do not hold.
* All other specifications state none: a user or a pass decides what comes
  next, and nothing happens without a call.

### Refinements

`CompiledModel` implements `WeightStore` (checked and proved); `OrderedHash`
implements `OrderedMap` and `OrderedSet` (checked and proved).

## Proofs

All theorems hold for every value of the constants that satisfies the named
assumptions. They are proved with TLAPS from inductive invariants that the runs
check too, where they are finite.

`CompiledModel_proofs`

* `TypeCorrect`: `TypeOK` is inductive.
* `Coherence`: `WeightsCoherent` alone is not inductive: with a torch optimizer
  the device copy is arbitrary old, which is harmless only because a forward
  pass drops it, and an optimizer step replaces handles only where the
  optimizer is on the device. The invariant is strengthened accordingly.
* `ImplementsWeightStore`: every step is a read or a write of `WeightStore` or
  leaves its variables alone, using `WeightsCoherent` for the reads.
* `GradientsFresh`: from `GradientsInv`: waiting gradients imply that the
  weights they were computed with are on the device, where only a step changes
  them, and a step consumes the gradients.

`Coherence` and `ImplementsWeightStore` assume `CrossWrites` false, without
which they are false; `GradientsFresh` assumes a backward program
with gradient inputs.

The second part of the module, with lemmas about what each operation on a tensor
sets and keeps, and about `PushGroup` and `PushPersistent` for any program:

* `NoStaleHandles`, from `LiveHandles`: every tensor of the pool keeps host
  contents, and a handle belongs to the open mesh. The first half is needed
  since a program pushes what has no handle. Assumes `ReconfigureAnytime` false,
  without which it is false.
* `HostSeesLatestWeights`, an action property, from `Coherence`; assumes
  `CrossWrites` false.
* `BackwardTakesLastCall`, from `FromLastCall`: what is held between two calls
  stems from the last forward call, except that a step on the device may have
  replaced the weights, which then shows in the version. Nothing is assumed of
  the user: the torch-side writes that break `Coherence` do not reach what a
  backward pass takes.
* `SlotLayouts`: `ForwardLayout` is inductive with the types, since a slot's
  layout depends on the number of tensors that are before it, and
  `PushPersistent` starts counting after the inputs. Assumes that calls pass as
  many inputs as the program has; with another number it is false.

`GraphLib_proofs`

* `TypeCorrect`, `AlwaysMirrored`, `AttributesAlwaysPresent` follow from
  `GraphInv`, three invariants proved together. `EdgesInv` adds to
  `EdgesMirrored` that input ports are bounded, without which the maximum plus
  one that `add_edge` picks need not exist; the bound comes from the initial
  graph being finite, and the minimum from the well-foundedness of the natural
  numbers. `AttrsInv` adds that every entry of the attribute map, of a live
  edge or not, names an object, since a rewrite may pick up a stale entry. Two
  lemmas carry the argument: `RewireMirrored` (adding edges between nodes and
  removing any) and `WithoutMirrored` (removing a node); each rewrite then only
  has to show that the edges it adds join nodes of the graph.
* `NamesAlwaysResolve` assumes that no rename uses a taken name, without which
  it is false, and uses that ids are handed out in order.
* `AlwaysAcyclic`: a cycle is a nonempty set of nodes each of which has an
  operand in the set. For each rewrite, a cycle of the new graph gives one of
  the old: take out of it, or add to it, the nodes the rewrite moved
  (`InsertAcyclic`, `BypassAcyclic`, `SwapAcyclic`). Premise: the initial graph
  has no cycle.
* `PortsAlwaysUnique`: an insert hands the port of the removed edge on, a
  bypass that of each user's edge, and `add_edge` takes one above all others.
  That a bypassed node is not its own user needs acyclicity, so the theorem
  builds on the one before. Premises: the initial graph has no cycle, and its
  operands have ports of their own.
* `AttributesNeverShared`: a key that has no entry yet names a new object, since
  all objects are those of keys that have one; what a swap hands on it takes
  from an edge it removes. It assumes `ReAddEdges` false, without which it is
  false.
* `NopsAlwaysTransparent`, an action property. `Arrives` is what a walk upwards
  gets after as many steps as there are nodes. Every step settles the nops whose
  source is settled, and without a cycle it always settles one more
  (`BelowShrinks`), so that the walk ends in a solution of its own equations, a
  flow; a graph without cycles has only one (`OneFlow`). It is then enough to
  give a flow of the graph after an insert or a bypass: the old one, with the
  new edges carrying what the edge they replace did. `FlowInv` holds what this
  needs: no cycle, nops with one data operand at most, TMs that are sequences.
  A bypass must also not meet an edge that is there already, which
  `PortsUnique` excludes, nor an attribute object of another edge. Premises: the
  initial graph has no cycle, ports of their own and unary nops, and
  `ReAddEdges` is false, without which it is false.

`ConstEvalForks_proofs`

* `SplitAlwaysMirrored`, `SplitAlwaysAcyclic`: the clones are made by a fold
  over the users, in any order and possibly stopped by a name in use, and what
  they leave behind is described without the fold: edges removed at the input,
  edges added from clones to the same users. `SplitInv` adds that new ids are
  above all ids in the graph, so that a clone is a new node and cannot close a
  cycle.
* `ForksAlwaysSplit`, an action property, from `SplitInv` and `KnownEnds`: no
  entry of the attribute map is of an edge whose ends have ids not handed out
  yet. Entries are never erased and never overwritten; without it a clone's edge
  could find an entry of its own and ignore the TMs of the edge it replaces.

All three assume that the initial graph has no cycle.

`OpCompile_proofs`, for any ops of the user and any configurations. Lemmas
(`DecomposeSound`, `GradientsSound`, `SwitchFits`) say once what the rules of the
tables may do, without a case for every op in the proofs that follow:

* `PassesAlwaysSettle`, an action property, from `SweepInv`: in a sweep that has
  removed nothing, the nodes already visited are kept by the rules. What a rule
  makes goes into the sweep or causes another one.
* `AssertionsAlwaysHold`, from `OrderInv`: which ops can be there at which
  stage. That `layernorm_bw` always finds its `layernorm` decomposed first
  needs the order of the sweep (forward nodes before those made of them) and
  that `layernorm` is never kept by a rule, in every later sweep too.

The one premise is the assumption `UserGradientsAssumption` of the module: no
user calls an op that only `backward` makes; `forge.op` has no function for
them.

`OrderedHashTables_proofs` and `OrderedHash_proofs`, for any keys, hash
function, numbers of buckets, load factors and counts

* The first module is about arrays of n buckets for any n, without the state of
  the table. A bucket's *rank* is zero if it is empty and otherwise one more
  than its distance from home; robin hood order is then one inequality,
  `Ordered`: the next bucket's rank is at most one more. `Chain` derives from it
  that all buckets from home to an entry are full of entries at least as far
  displaced as a search has come, hence `FindKeyIs`: a search stops at its key
  or where the key cannot be. `InsertIndexIs` follows the displacements with an
  invariant of the loop: the array with the entry in hand is a permutation of
  the array before and that entry, the bucket at hand is where that entry fits.
  `RehashKeeps`, `ShiftedOrder`, `ShiftDown`, `ShiftUp`, `RangeEraseIs` are the
  same for the other loops. `Sound(b, vs, n)` collects what an array has to be
  for the values; `InsertSound`, `EraseSound`, `RangeSound`, `SwapSound` say
  that each operation leads from a sound one to a sound one. Loops are
  unfolded by `LoopRuns`, and what holds along them by `Steps`, from the
  well-foundedness of the natural numbers.
* The second is about the state. `TableInv`: for some n, zero or a power of two,
  the array is sound, and the threshold and the pointer are those of n. None of
  the four invariants is inductive alone: `Indexed` depends on searches that
  `RobinHood` makes right, `NeverHangs` on both, and a free bucket on the
  threshold being that of the present number of buckets, whatever load factor
  is set in between (`GrowIs`, with `ThresholdIs`, `CeilIs`).
* `TypeCorrect`, `AlwaysIndexed`, `AlwaysRobinHood`, `SearchesEnd` follow.
* `ImplementsMap` and `ImplementsBoth`: each operation is one of `OrderedMap` on
  the values, clearing being an erasure of everything, and each step of
  `OrderedMap` is one of `OrderedSet` on the keys or does not change them.

The theorems of `OrderedHash_proofs` assume `Careful`: none of the three calls
under "OrderedHash" that the code gets wrong. With any of them the invariants
are false.

`ThreadSafeQueue_proofs`

* `AlwaysBounded`, `DeliveredOnce`, `LeavesInOrder`, for any number of threads
  and pushes, from `QueueInv`: types, positions that hold distinct elements,
  numbers of a producer's elements that are exactly those it has pushed, the
  queue and what left it being apart, and the order. Numbers being at most the
  producer's count is what makes a newly pushed element differ from all others
  and come last.
* `NoLostWakeups`: in an unbounded queue no push blocks, and while an element is
  in the queue and a thread is in `pop_blocking`, one that is awake will test
  the condition. It is what the liveness of an unbounded queue rests on. Its
  invariant `Attended` counts: if anybody is blocked, at least as many poppers
  are awake as there are elements. A push adds an element and wakes a blocked
  popper, a pop takes one of each, and only an empty queue blocks a popper. The
  theorem assumes finitely many popping threads. Bounded queues have no such
  theorem: there a pop notifies nobody.

`TrainedModel_proofs`, for any models and optimizers

* `TopologicalSortIs`: in a graph without cycles `topological_sort` returns
  every node once, and every node after its operands. Both the visit of a node
  and its result are recursive functions: a visit is a function from results to
  results, defined from the visits of the operands. That such definitions have
  the meaning they seem to have (`GraphRecursion`, `SetRecursion`) is itself
  proved by induction along the numbers of the nodes, and folds are described by
  what they keep after each prefix (`FoldInvariant`).
* `GraphInvariant`: `GraphInv` says for every stage what is true of the graph.
  Always (`Plain`): no cycles, operands are nodes, a nop is an op with one
  operand and not of the optimizer, names carry no suffix but those autograd
  gives, ordered inputs that are still nodes are activations of forward or
  gradients of backward, loopback edges start at nodes of the optimizer, and
  outputs return results of ops. While autograd only adds nodes (`Good`): forward
  nodes have names without suffixes and read forward nodes, clones are backward
  nodes that read clones or inputs which forward reads too, nothing else reads a
  clone, a nop of backward reads no forward node; the gradients of the map are
  backward nodes (`GradsGood`). While ops are cloned (`CloningInv`): every
  forward op has a clone or is still to be visited, after its operands, so that
  the operands' clones are there when `create_recompute_op` looks for them.
  While clones are removed (`RemovingInv`): one without a user is still in
  `todo`, to which the operands of a removed clone are appended. With
  recomputation (`Recomputed`): backward reads clones and inputs, a nop that is
  not a clone reads no clone, which is what keeps `remove_nops` from leaving a
  clone without a user.
* `RecomputationFreesIntermediates` follows: a forward op has no user in
  backward, hence `needs_intermediate_output` is false of all nodes, and no
  output is marked, since what it returns is the result of a forward op.
* `BackwardGetsItsInputs`: the three lists that `backward` of
  `compiled_graph_state.py` puts together have the names, the order and the
  number of the inputs of the backward graph, although `extract_backward_graph`
  makes these in three other loops. The forward graph holds forward nodes and
  intermediate outputs, the backward graph results that cross, forward inputs it
  reads, backward nodes and gradient accumulators; the suffixes keep new names
  apart from all names of the graph (`Plain` bounds which suffixes those have).
  Hence an output of forward is an input of backward exactly if it is marked
  intermediate (`WhatCrosses`), each of the three parts of `BackwardInputs` is
  the runtime's part (`GradientPart`, `CrossingPart`, `ForwardPart`), and filters
  of equal lists are equally long.

* `ForwardKept`: `ForwardInv` says that the outputs are those of the model and
  that every forward node left is a node of the model, unchanged, reads forward
  nodes only and makes of the model's values of its operands the model's value
  of itself. Operands of a node do change: `remove_nops` moves a user of a nop to
  what the nop read, which has the same value (`SameBypassed`). `GraphInv` is
  needed beside it: that what is added, moved or removed is not of forward, and
  that a nop has one operand and is not an output.
* `ForwardReturnsModel` follows. The forward graph has the forward nodes with
  their operands and further outputs (`ForwardGraphCopies`); every input gets its
  own tensor, from the pool by name or from the arguments by position
  (`ForwardIsGiven`). The model's values, taken by number, then satisfy the
  equations of the forward graph (`ModelValuesFit`), and no others do: the least
  node with another value would have an operand with another value
  (`ForwardComputes`). The outputs of the model come before the intermediate
  ones, so that their indices are the first (`FirstIndices`).

Assumed of the models (`IsTraced`, `ReturnsOps`, `IsGraphOf`, in `Autograd`): what
`generate_graph` makes, that is forward nodes without cycles, inputs that are
parameters or activations, one output node for every output of the model, in its
order, and outputs that return results of ops, also past nops. A model that
returns one of its inputs would keep that input for backward: the property is
about results. TLC evaluates the assumptions for the models of the run.

## Only model-checked

* `GradientsCorrect` and `StepCorrect` of `trained_model`: they compare what
  backward and the optimizer compute with sums over all paths of the model; the
  contributions of the uses of a value, added up in the order of autograd's loop,
  would need their own theory of sums.
* Everything in `tm_passes`: it computes values with recursive operators over
  graphs, which the prover does not read.
* Termination and liveness: `Terminates` of `op_compile`, the end of the rounds
  of `tm_passes`, `ElementsArrive`, `PushesReturn` and the other liveness
  properties of the queue. Fairness is out of the prover's reach.

## Known deviations

What the models show about the code besides the four findings. The definitions
named are kept in the modules; no run checks them.

Runtime:

* `FreshGradients`: `gradient_inputs` is never reset, so `backward()` accepts
  the gradients of an earlier iteration (`compiled_graph_state.py` 349).
* `ReadsLatestWeights` with `CrossWrites`: a torch-side write is not seen while
  an optimizer on the device owns the weights (308).
* `OwnLayout`: with some inputs on the device, another slot's layout is used
  (`state.cpp` 70).
* `RunsOnLiveHandles` with `ReconfigureAnytime`: handles of a closed device are
  used (`tt_device.cpp` 80).
* `GradientsExpected`, for the models `PartlyTrained` (`MCTrainedModel`): a
  hook is registered for every output, but a gradient input exists only for
  those that need one (`compiled_graph_state.py` 338, "More gradients than
  expected.").

Graph library:

* `SwapKeepsTms`: a second swap of the same nodes loses TMs (`utils.cpp` 1050).
* `AttributesUnshared` and `NopsTransparent` with `ReAddEdges`: `remove_edge`
  keeps the edge's entry (`graph.cpp` 584) and `swap` hands its object on
  (`utils.cpp` 1050). After a swap, a bypass that re-creates an edge the swap
  removed leaves two edges with one object, and the TMs that the bypass sets
  show up on both.
* `NamesResolve` with `RenameTaken`: `update_node_name` hides the node that had
  the name (`graph.cpp` 645).
* `AccessibleByName`: after a split `set_name` leaves the name index without
  the constant (`consteval.cpp` 104).

Containers:

* The three excluded cases of `OrderedHash` above.
* Pops of a bounded queue notify nobody: a thread waiting for room sleeps until
  another push, which may never come.

TM passes and constant folding:

* `decompose_nd_reshape_split.cpp` 133-134: an index whose only user is an
  output gives a null op.
* `erase_inverse_ops.cpp` 169: a forked unsqueeze on the path fails an
  assertion; 324-334: the squeeze of the other operand may be of a dimension
  that is not one.
* `utils.cpp` 1272: two reshapes in a row between an input and an output, the
  second to a higher rank, fail an assertion; 1287 goes on from the first
  operand's edge whichever operand was changed.
* `explicate_unsqueeze.cpp` 90-157: hoisting bypasses a forking squeeze for all
  users.
* `insert_inverse_on_io.cpp` 248-250: a fork to an output starts again at the
  initial op.
* `is_consteval_capable_input_no_operand_forks` compares legacy attributes
  only; `match_squeeze` (`commute_utils.cpp` 116) is a copy of
  `match_unsqueeze`; `commute_through_reduce` (699) shadows `can_commute`.
* `fuse_pad_conv2d.cpp` 85 asserts seven attributes where the op has five.
* `constant_folding.cpp`: `add(m, m) * c` folds the constant twice, weights
  shared by two products give one clone name twice, the "constant" may be an
  activation, and `within_tile` compares a narrow's output with itself.
* `dataformat.cpp` 104-108: an assertion on inputs of mixed formats.

Ops: `less_equal`, `gelu_derivative`, `narrow` and `dropout` have no lowering
handler; `resize.py` 236, "This should never be called.", is reached when
training.

## Not modelled

* Numeric results of the other ops and their shape inference; evaluation on the
  host and on the device.
* Data formats and mixed precision: `run_dataformat_passes` and the passes of
  `amp.cpp` have no caller, and formats change nothing the models tell apart.
* Frontends (generated Python), verification of results, reports, caching,
  `save` and the exports.
* Detection of devices; `run_program_from_file`.
* Several compiled models under one optimizer, and attached modules.
* `fuse_conv2d_bias`, `fuse_pad_conv2d`, `fuse_per_channel_ops`, `fracture`,
  and the passes that `tm_passes` has nothing for: patterns over convolutions,
  quantization and groups given by the user.
* Graph clones, subgraph ids, traversal contexts, micro-block orders.
* The consteval pass's own loop; broadcasts of a folded constant.

## Plan

1. `CompiledModel`: an attached module (loss on the device) and several modules
   under one optimizer, as a composition of two instances.
2. `TmGraph`: TMs on edges for broadcasts, concatenate and reduce_avg on a
   path; the consteval loop.
3. Proofs: `GradientsCorrect` in `TrainedModel`, with the adjoint that each node of
   backward stands for as a further part of `ForwardInv`.
