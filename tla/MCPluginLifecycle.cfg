SPECIFICATION SafeSpec
CONSTANTS
    p1 = p1
    plain = plain
    guarded = guarded
    interactive = interactive
    None = None
    Plugins = {p1}
    Commands = {plain, guarded, interactive}
    CmdsOf <- OnePlugin
    Guarded = {guarded}
    Interactive = {interactive}
    Invokers = {"io", "hk"}
    Watchers = {"input"}
INVARIANTS
    TypeOK
    RefcountExact
    NoCallIntoClosedLibrary
    CommandRefValid
    GuardHolds
    BelongsExact
    WorldKnown
