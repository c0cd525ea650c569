SPECIFICATION Spec
CONSTANTS
    Byte <- MCByte
    Messages <- MCMessages
    MaxSysex = 5
    BufferAddress = 4
INVARIANTS
    TypeOK
    PointerInBuffer
    IdleMeansBegin
    InStep
    HandlerSeesTerminator
PROPERTY WholeMessages
