CONSTANTS
    UserOps <- MCUserOps
    Configs <- MCConfigs
SPECIFICATION Spec
INVARIANT LoweredMeaning
\* A compilation ends.
CHECK_DEADLOCK FALSE
