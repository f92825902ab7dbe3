SPECIFICATION FairSpec
CONSTANTS
    Workers = {w1, w2, w3}
    Free = Free
    KeyLength = 2
    Window = 2
    MaxKeys = 2
    MaxResizes = 1
INVARIANTS TypeOK KeysInOnePiece DisconnectIsFinal NoWriteOnTakenChannel
PROPERTIES CallsReturn ReaderIsTornDown
CHECK_DEADLOCK FALSE
