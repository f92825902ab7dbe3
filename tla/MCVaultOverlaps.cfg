SPECIFICATION ScreenSpec
CONSTANTS
    MaxDeletes = 1
    ConnIds = {c1}
    FolderIds = {f1}
    Endpoints = {e1}
    Root = Root
    NoJump = NoJump
    NoConn = NoConn
    NoFolder = NoFolder
    Workers = {w1, w2}
    Salts = {s1, s2}
    Forms <- MCForms
    Imports <- MCImports
    NoVault = NoVault
    NoKey = NoKey
    Free = Free
    Absent = Absent
    Torn = Torn
    MaxCalls = 5
    Remembering = TRUE
    Hasty = TRUE
SYMMETRY Symmetry
INVARIANTS
    ScreenTypeOK
    FileOpens
    AddedIsPersisted
    UnlockedIsUsable
    LockClears
    HomeFindsVault
    RememberedOpens
    BoxTellsKeyring
PROPERTIES
    SaveIsSnapshot
    ImplementsStore
CHECK_DEADLOCK FALSE
