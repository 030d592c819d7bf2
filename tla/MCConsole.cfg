SPECIFICATION Spec
CHECK_DEADLOCK FALSE
INVARIANTS
    TypeOK
    TerminalKept
PROPERTIES
    ConsoleEnds
