SPECIFICATION ScreenFairSpec
CONSTANTS
    MaxDeletes = 1
    ConnIds = {c1}
    FolderIds = {f1}
    Endpoints = {e1}
    Root = Root
    NoJump = NoJump
    NoConn = NoConn
    NoFolder = NoFolder
    Workers = {w1, w2}
    Salts = {s1, s2}
    Forms <- MCForms
    Imports <- MCImports
    NoVault = NoVault
    NoKey = NoKey
    Free = Free
    Absent = Absent
    Torn = Torn
    MaxCalls = 4
    Remembering = FALSE
    Hasty = TRUE
PROPERTY CallsReturn
CHECK_DEADLOCK FALSE
