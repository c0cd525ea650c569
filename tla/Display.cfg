SPECIFICATION Spec
CONSTANTS
    NumEncoders = 2
    NUM_BANKS = 2
    Levels = {0, 1}
    Touched = {0}
    Scenarios <- MCScenarios
INVARIANTS
    TypeOK
    CacheTellsTruth
PROPERTY DisplayCatchesUp
