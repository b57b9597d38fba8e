SPECIFICATION Spec
CONSTANTS
    None = None
    Workflows <- Usual
    LayerLimit = 17
    MaxRounds = 6
INVARIANT TypeOK
INVARIANT TakenPathsRun
INVARIANT ErrorsAreHandled
INVARIANT OncePerPass
INVARIANT ContainersFinish
INVARIANT EndsByItself
PROPERTY WaitsForInputs
CHECK_DEADLOCK FALSE
