SPECIFICATION Spec
CONSTANTS
  Null = Null
  Names <- MCNames
  Params <- MCParams
  Persistent <- MCPersistent
  Aliased <- MCAliased
  Matches <- SubstringMatches
  NumInputs = 2
  InputCounts = {2}
  BwdInputs = {2}
  NumIntermediates = 1
  NumGradInputs = 1
  Modes = {"host"}
  CrossWrites = FALSE
  ReconfigureAnytime = FALSE
  MaxCalls = 2
  MaxBackwards = 2
  MaxVersion = 2
  MaxGen = 3
INVARIANT OwnGradients
