SPECIFICATION Spec
CONSTANTS
    ENCODER_INACTIVE_THRESHOLD = 4
    ENCODER_DEBOUNCE_CYCLE_TIMEOUT = 3
    StateHalf = 2
    CycleRange = 32
    MaxEvents = 2
INVARIANT StateIsStepCount
