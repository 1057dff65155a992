--------------------------------- MODULE TmPasses ---------------------------------
(***********************************************************************************)
(* The TM passes of the compile pipeline in the order forge_passes.cpp runs them:  *)
(* those of run_post_initial_graph_passes once, then those of                      *)
(* run_optimization_graph_passes, over and over, until a round changes nothing.    *)
(* A pass that loops is left when it finds nothing more to rewrite.                *)
(***********************************************************************************)
EXTENDS ConstantFolding

CONSTANT Graphs     \* the graphs that are compiled

VARIABLES
  g,          \* the graph
  pc,         \* the pass that runs, or next_round, done, thrown
  attempt,    \* attempt_update of run_optimization_graph_passes
  want        \* what the graph computed when it came in

vars == <<g, pc, attempt, want>>

Init ==
  /\ g \in Graphs
  /\ pc = "decompose_nd_reshape_split"
  /\ attempt = FALSE
  /\ want = Results(g)

-----------------------------------------------------------------------------------
(* A pass visits the nodes in topological order and rewrites at the first it can.  *)
FirstRewrite(Rewrite(_, _)) ==
  FoldLeft(LAMBDA h, n : IF h = g THEN Rewrite(g, n) ELSE h, g, topological_sort(g))

(* An assertion that fails ends the compilation.                                   *)
Becomes(h, next, updated) ==
  /\ g' = h
  /\ pc' = IF h.ok THEN next ELSE "thrown"
  /\ attempt' = updated
  /\ UNCHANGED want

(* The pass p: one rewrite, after which again is next, or the end of the pass.     *)
Pass(p, Rewrite(_, _), again, finished, updated) ==
  /\ pc = p
  /\ \E h \in {FirstRewrite(Rewrite)} :
       \/ h # g /\ Becomes(h, again, updated)
       \/ h = g /\ Becomes(g, finished, attempt)

(*-------------------------- run_post_initial_graph_passes -----------------------*)
DecomposeNdReshapeSplit ==
  /\ pc = "decompose_nd_reshape_split"
  /\ Becomes(decompose_nd_reshape_split(g), "erase_unnecessary_4d_tm_sequence", attempt)
EraseUnnecessary4dTmSequence ==
  Pass("erase_unnecessary_4d_tm_sequence", erase_unnecessary_4d_tm_sequence, pc, "explicate_unsqueeze", attempt)
ExplicateUnsqueeze ==
  /\ pc = "explicate_unsqueeze"
  /\ Becomes(explicate_unsqueeze(g), "initial_bypass_nop_tms", attempt)
InitialBypassNopTms ==
  Pass("initial_bypass_nop_tms", bypass_nop_tms, pc, "hoist_unsqueeze_squeeze_to_reshape", FALSE)

(*-------------------------- run_optimization_graph_passes -----------------------*)
NextRound == "hoist_unsqueeze_squeeze_to_reshape"
\* Mutation: attempt_update is not reset when a round begins.
HoistUnsqueezeSqueezeToReshape_no_reset ==
  /\ pc = NextRound
  /\ \E order \in SetToSeqs(nodes_to_remove(g)) :
       Becomes(hoist_unsqueeze_squeeze_to_reshape(g, order), "erase_inverse_ops", attempt)

HoistUnsqueezeSqueezeToReshape ==
  /\ pc = NextRound
  /\ \E order \in SetToSeqs(nodes_to_remove(g)) :
       Becomes(hoist_unsqueeze_squeeze_to_reshape(g, order), "erase_inverse_ops", FALSE)

EraseInverseOps ==
  Pass("erase_inverse_ops", erase_inverse_ops, pc, IF attempt THEN "bypass_nop_tms" ELSE "insert_inverse_on_outputs", TRUE)
InsertInverseOnOutputs ==
  Pass("insert_inverse_on_outputs", insert_inverse_on_outputs, pc,
       IF attempt THEN NextRound ELSE "insert_inverse_on_inputs", TRUE)
InsertInverseOnInputs ==
  Pass("insert_inverse_on_inputs", insert_inverse_on_inputs, pc,
       IF attempt THEN "bypass_nop_tms" ELSE "insert_inverse_on_downstream_tms", TRUE)
InsertInverseOnDownstreamTms ==
  Pass("insert_inverse_on_downstream_tms", insert_inverse_on_downstream_tms, NextRound, "erase_consecutive_reshape", TRUE)
EraseConsecutiveReshape ==
  Pass("erase_consecutive_reshape", erase_consecutive_reshape, pc, "bypass_nop_tms", TRUE)
BypassNopTms ==
  Pass("bypass_nop_tms", bypass_nop_tms, pc, IF attempt THEN NextRound ELSE "recalculate_shapes", attempt)
RecalculateShapes ==
  /\ pc = "recalculate_shapes"
  /\ Becomes(recalculate_shapes(g), "last_erase_consecutive_reshape", attempt)
LastEraseConsecutiveReshape ==
  Pass("last_erase_consecutive_reshape", erase_consecutive_reshape, pc, "constant_folding", attempt)
ConstantFolding_ == Pass("constant_folding", constant_folding, pc, "done", attempt)

Next ==
  \/ DecomposeNdReshapeSplit
  \/ EraseUnnecessary4dTmSequence
  \/ ExplicateUnsqueeze
  \/ InitialBypassNopTms
  \/ HoistUnsqueezeSqueezeToReshape
  \/ EraseInverseOps
  \/ InsertInverseOnOutputs
  \/ InsertInverseOnInputs
  \/ InsertInverseOnDownstreamTms
  \/ EraseConsecutiveReshape
  \/ BypassNopTms
  \/ RecalculateShapes
  \/ LastEraseConsecutiveReshape
  \/ ConstantFolding_

(* One thread compiles, and nothing it calls waits: weak fairness of Next, which   *)
(* is enabled until the end is reached (as WF_vars(Next), with ENABLED spelt out). *)
Ended == pc \in {"done", "thrown"}
Spec == Init /\ [][Next]_vars /\ ([]<>Ended \/ []<><<Next>>_vars)

-----------------------------------------------------------------------------------
(* No pass changes what the graph computes: each output has the value and the      *)
(* shape it had, whichever TMs were moved, cancelled or merged on the way.         *)
MeaningKept == g.ok => Results(g) = want

(* The assertions of the passes hold on every graph they are given.                *)
AssertionsHold == g.ok

(* The shapes the graph stores, which the walks read and lowering emits, are those *)
(* the operators compute, after every rewrite and not only when the shapes have    *)
(* been calculated again; but a reduce that became a nop keeps its shape until     *)
(* then, and it is right at the end.                                               *)
ShapesTrue ==
  g.ok => \A n \in DOMAIN g.node : (Op(g, n) = "nop" /\ pc # "done") \/ g.node[n].shape = Computes(g, n).shape

(* The rounds come to an end: TMs are not inserted and erased for ever.            *)
Terminates == <>Ended
====================================================================================
