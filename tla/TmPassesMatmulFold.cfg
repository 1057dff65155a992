SPECIFICATION Spec
CONSTANT Graphs <- HalfScaled
INVARIANT MeaningKept
CHECK_DEADLOCK FALSE
