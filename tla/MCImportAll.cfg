SPECIFICATION Spec
CONSTANTS
    Null = Null
    Garbage = Garbage
    Texts <- MCTexts
    Uuids <- MCUuids
    None = None
    Documents <- MCDocuments
    Forms <- MCForms
    MaxIds = 16
    MaxActs = 3
INVARIANTS TypeOK TreeKept ReportedIsStored
PROPERTIES NoneTwice
