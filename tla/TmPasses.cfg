SPECIFICATION Spec
CONSTANT Graphs <- MCGraphs
INVARIANTS
    MeaningKept
    AssertionsHold
    ShapesTrue
PROPERTY Terminates
CHECK_DEADLOCK FALSE
