SPECIFICATION FairSpec
CONSTANTS
    Needs <- Login
    SocketRoom = 2
    Chatty = TRUE
INVARIANT NothingMissing
PROPERTIES ImplementsTunnel ConversationEnds TunnelReleased
CHECK_DEADLOCK FALSE
