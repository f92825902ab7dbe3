SPECIFICATION FairSpec
CONSTANTS
    MaxTabs = 3
    MaxConns = 4
    Keyed <- MCKeyed
    None = None
INVARIANTS KeysReachOwnHost OthersStayConnected
PROPERTIES ShellsCloseWithTab ConnectingEnds
CHECK_DEADLOCK FALSE
