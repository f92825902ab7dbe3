SPECIFICATION ScreenSpec
CONSTANTS
    MaxDeletes = 1
    ConnIds = {c1}
    FolderIds = {}
    Endpoints = {e1}
    Root = Root
    NoJump = NoJump
    NoConn = NoConn
    NoFolder = NoFolder
    Workers = {w1, w2}
    Salts = {s1, s2}
    Forms <- MCForms
    Imports <- MCImports
    NoVault = NoVault
    NoKey = NoKey
    Free = Free
    Absent = Absent
    Torn = Torn
    MaxCalls = 5
    Remembering = TRUE
    Hasty = FALSE
INVARIANT LockedStaysLocked
CHECK_DEADLOCK FALSE
