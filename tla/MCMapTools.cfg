SPECIFICATION Spec
CONSTANTS
    Side = 2
    XBlocks = 2
    YBlocks = 1
    ZMax = 2
    Interior <- MCInterior
    Items = {1, 2}
    MaxPaint = 2
CHECK_DEADLOCK FALSE
INVARIANTS
    TypeOK
    FloodReveals
    RoomsStayHidden
    ItemBitExact
PROPERTIES
    ImplementsTileMap
    DigMarked
    FloodEnds
