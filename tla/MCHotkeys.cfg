SPECIFICATION Spec
CONSTANTS
    a = a
    b = b
    Keys = {F1}
    FKeys = {F1}
    Mods = {plain, shift}
    CmdLines = {a, b}
    Empty = Empty
    Lists <- MCLists
CHECK_DEADLOCK FALSE
INVARIANTS
    TypeOK
PROPERTIES
    ScanSeesOneTable
    SetBindsExactly
    NewestHotkeyTaken
