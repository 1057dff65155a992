CONSTANTS
    UserOps <- MCUserOps
    Configs <- MCConfigs
SPECIFICATION Spec
INVARIANT AssertionsHold
PROPERTIES
    PassesSettle
    Terminates
\* A compilation ends.
CHECK_DEADLOCK FALSE
