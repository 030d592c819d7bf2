SPECIFICATION Spec
CONSTANTS
    p1 = p1
    plain = plain
    guarded = guarded
    interactive = interactive
    None = None
    Plugins = {p1}
    Commands = {plain}
    CmdsOf <- OnePlugin
    Guarded = {}
    Interactive = {}
    Invokers = {"io", "hk"}
    Watchers = {}
PROPERTIES
    CallsReturn
    GameGoesOn
