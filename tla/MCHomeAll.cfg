SPECIFICATION FairSpec
CONSTANTS
    ConnIds = {c1, c2}
    FolderIds = {f1}
    Endpoints = {e1, e2}
    Root = Root
    NoJump = NoJump
    NoConn = NoConn
    NoFolder = NoFolder
    Typed = {e1}
    Nothing = Nothing
    Slots = {s1, s2}
    Imports <- MCImports
    MaxActs = 3
INVARIANTS TypeOK ViewIsCurrent DeletedStaysDeleted
PROPERTY SpinnersEnd
CHECK_DEADLOCK FALSE
