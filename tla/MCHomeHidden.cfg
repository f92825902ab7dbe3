SPECIFICATION Spec
CONSTANTS
    ConnIds = {c1}
    FolderIds = {f1, f2}
    Endpoints = {e1}
    Root = Root
    NoJump = NoJump
    NoConn = NoConn
    NoFolder = NoFolder
    Typed = {e1}
    Nothing = Nothing
    Slots = {s1}
    Imports = {}
    MaxActs = 4
PROPERTY DeletionHidesNothing
CHECK_DEADLOCK FALSE
