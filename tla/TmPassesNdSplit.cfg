SPECIFICATION Spec
CONSTANT Graphs <- PairGraphs
INVARIANT MeaningKept
CHECK_DEADLOCK FALSE
