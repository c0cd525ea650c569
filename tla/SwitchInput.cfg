SPECIFICATION Spec
CONSTANTS
    SWITCH_DEBOUNCE_BUFFER_SIZE = 5
    ScansPerUpdate = 1
INVARIANTS
    TypeOK
    ReportsAMoment
    NoPressLost
    EdgesTellState
