SPECIFICATION FairSpec
CONSTANTS
    Needs <- Login
    SocketRoom = 2
    Chatty = FALSE
PROPERTY ClientBytesMove
CHECK_DEADLOCK FALSE
