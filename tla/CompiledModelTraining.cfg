SPECIFICATION Spec
CONSTANTS
  Null = Null
  Names <- MCNames
  Params <- MCParams
  Persistent <- MCPersistent
  Aliased <- MCAliased
  Matches <- ExactMatches
  NumInputs = 2
  InputCounts = {2}
  BwdInputs = {2}
  NumIntermediates = 1
  NumGradInputs = 2
  Modes = {"inference", "host", "device"}
  CrossWrites = FALSE
  ReconfigureAnytime = FALSE
  MaxCalls = 3
  MaxBackwards = 3
  MaxVersion = 3
  MaxGen = 3
INVARIANTS TypeOK WeightsCoherent GradientsMatchWeights 
PROPERTIES ReadsLatestWeights BackwardCoherent  HostSeesWeights
