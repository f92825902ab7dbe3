SPECIFICATION Spec
CONSTANTS
    MaxTabs = 3
    MaxConns = 3
    Keyed <- MCKeyed
    None = None
INVARIANT SessionsIndependent
CHECK_DEADLOCK FALSE
