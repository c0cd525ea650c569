CONSTANTS
    NumBanks = 2
    NumEncoders = 1
    CC_MAX = 4
    CENTER = 2
    MaxCount = 3
    DETENT_SIZE = 1
    DEAD_ZONE_SIZE = 1
    Configs <- BankConfigs
    Ticks <- SomeTicks
    HostMessages <- Feedback
SPECIFICATION Spec
INVARIANTS TypeOK HostAndDeviceAgree IndicatorShowsTheValue
PROPERTY OnlyStopsGiveWay
