SPECIFICATION Spec
CONSTANTS
  InitKind <- ForkKind
  InitEdges <- ForkEdges
  Bases = {4}
  TMs = {"t"}
  ReAddEdges = FALSE
  RenameTaken = FALSE
  MaxId = 4
  MaxOps = 5
  MaxTms = 2
CHECK_DEADLOCK FALSE
INVARIANTS TypeOK EdgesMirrored NamesResolve AttributesPresent PortsUnique Acyclic 
PROPERTY NopsTransparent
