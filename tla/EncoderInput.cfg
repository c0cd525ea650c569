SPECIFICATION Spec
CONSTANTS
    ENCODER_INACTIVE_THRESHOLD = 4
    ENCODER_DEBOUNCE_CYCLE_TIMEOUT = 3
    StateHalf = 4
    CycleRange = 32
    MaxEvents = 2
INVARIANTS
    TypeOK
    ReadsWholeMovement
    StepsTakeTime
    BounceCountsOnce
PROPERTY TakenWhole
