SPECIFICATION Spec
CONSTANTS
    NUM_BANKS = 2
    NumEncoders = 2
    NumSides = 3
    NATIVE_MODE_TOGGLE_COMBO <- MCCombo
    Configs <- StuckConfigs
    MaxInbox = 1
INVARIANT ReturnsToNormal
