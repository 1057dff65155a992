SPECIFICATION Spec
CONSTANTS
    Programs <- MCPrograms
    Optimizers <- MCOptimizers
INVARIANTS
    BackwardCallFits
    GradientsCorrect
    OutputsCorrect
    RecomputeFreesIntermediates
    StepCorrect
