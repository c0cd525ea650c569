CONSTANTS
    NumPages = 2
    EncodersPerPage = 2
    BulkTransfers <- Transfers
    PushMessages <- Tables
    MaxPowerLosses = 1
SPECIFICATION Spec
INVARIANTS TypeOK AnsweredConfigIsDurable EncoderKeepsWhatWasSent OnlyPendingIsStale ResetIsWhole
