SPECIFICATION FairSpec
CONSTANTS
    Null = Null
    Garbage = Garbage
    Texts <- MCTexts
    Uuids <- MCUuids
    None = None
    Calls = {1, 2, 3, 4}
    Own = {1, 2}
    Others = {3, 4}
    OtherWires <- MCOtherWires
    Cards <- MCCards
    Objects = {o1, o2}
    PoolSize = 2
    MaxLeaves = 2
INVARIANTS TypeOK CardArrives ShownIsOpen StoredIsClosed
PROPERTIES LockReturns SpinnerEnds LeftIsClosed
CHECK_DEADLOCK FALSE
