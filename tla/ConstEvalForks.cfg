SPECIFICATION SplitSpec
CONSTANTS
  InitKind <- ForkKind
  InitEdges <- ForkEdges
  Bases = {5}
  TMs = {"t"}
  ReAddEdges = FALSE
  RenameTaken = FALSE
  MaxId = 6
  MaxOps = 4
  MaxTms = 1
CHECK_DEADLOCK FALSE
INVARIANT EdgesMirrored
PROPERTY ForksSplit
