CONSTANTS
    NumSlots = 4
    NumClips = 2
    NumBuffers = 2
    Velocities = {5}
    MaxLate = 1
    None = None
    Scenarios <- MCScenarios
SPECIFICATION Spec
INVARIANTS TypeOK OneTriggerPerSixteenth NotesEnd
PROPERTIES ShiftUndoes SlotsSurvive
