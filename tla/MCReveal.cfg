SPECIFICATION Spec
CONSTANTS
    Threads <- MCThreads
    io = io
    hk = hk
    Worlds <- MCWorlds
    w1 = w1
    w2 = w2
    Blocks = {earth, hell}
    Hell = {hell}
    Sizes = {s1, s2}
    NoSize = NoSize
SYMMETRY Symmetry
CHECK_DEADLOCK FALSE
INVARIANTS
    TypeOK
    CrashesOnlyElsewhere
PROPERTIES
    UnrevealRestores
    HellStaysPaused
