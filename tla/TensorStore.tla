---------------------------- MODULE TensorStore ----------------------------
(***************************************************************************)
(* tt::Tensor and the device-side view of it (forge/csrc/runtime/          *)
(* tensor.hpp, tt_device.cpp).  A tensor is a ref-counted record with an   *)
(* optional host copy and an optional runtime handle.  Its contents are    *)
(* abstracted to a natural number, the stamp of the write that produced    *)
(* them, so that "this copy is stale" is "these two stamps differ".        *)
(***************************************************************************)
EXTENDS Naturals, FiniteSets

CONSTANT Null          \* std::nullopt / None

ASSUME NullAssumption == Null \notin Nat

Programs == {"fwd", "bwd", "opt"}

(* A layout is named by the program and the input slot it was asked for;   *)
(* "out" is the layout the compiler gave a program output, "none" is a     *)
(* tensor without a runtime handle.                                        *)
Layout == [pg : Programs \cup {"out", "none"}, idx : Nat]

NoLayout  == [pg |-> "none", idx |-> 0]
OutLayout == [pg |-> "out", idx |-> 0]

GetLayout(pg, i) == [pg |-> pg, idx |-> i]

(* host: contents of host_storage.  dev: contents behind rt_tensor.        *)
(* layout, gen: the layout of the handle and the generation of the mesh    *)
(* device it was created on.  fits: whether desc (shape, stride, data      *)
(* type) is the one the program's slot expects.                            *)
Tensor == [host : Nat \cup {Null}, dev : Nat \cup {Null},
           layout : Layout, gen : Nat, fits : BOOLEAN]

OnDevice(t) == t.dev # Null

FromHost(v, fits) ==
  [host |-> v, dev |-> Null, layout |-> NoLayout, gen |-> 0, fits |-> fits]

FromRuntime(v, g) ==
  [host |-> Null, dev |-> v, layout |-> OutLayout, gen |-> g, fits |-> TRUE]

ToDevice(t, layout, g) ==
  [t EXCEPT !.dev = t.host, !.layout = layout, !.gen = g]

(* to_torch: the device copy is fetched only if there is no host copy yet. *)
ToTorch(t) == IF t.host = Null THEN [t EXCEPT !.host = t.dev] ELSE t

(* Fault: the host copy that is already there is kept.                     *)
UpdateHostDataNever(t) == t

UpdateHostData(t) == [t EXCEPT !.host = t.dev]

DetachFromDevice(t) ==
  [t EXCEPT !.dev = Null, !.layout = NoLayout, !.gen = 0]

(* Fault: the new handle is dropped.                                       *)
ReplaceHandleNever(t, u) == t

(* TensorPool::update_tensor: the handle is replaced in place, the host    *)
(* copy is left alone.                                                     *)
ReplaceHandle(t, u) ==
  [t EXCEPT !.dev = u.dev, !.layout = u.layout, !.gen = u.gen]

-----------------------------------------------------------------------------
(* The mesh device all programs run on: device 0 of TTSystem.  gen counts  *)
(* how often it was opened.                                                *)
Mesh == [open : BOOLEAN, gen : Nat]

(* Fault: the mesh device is reopened for every run.                       *)
OpenAlways(m) == [open |-> TRUE, gen |-> m.gen + 1]

OpenIfClosed(m) == IF m.open THEN m ELSE [open |-> TRUE, gen |-> m.gen + 1]

Configure(m) == [open |-> TRUE, gen |-> m.gen + 1]
=============================================================================
