SPECIFICATION Spec
CONSTANTS
    p1 = p1
    plain = plain
    guarded = guarded
    interactive = interactive
    None = None
    Plugins = {p1}
    Commands = {plain, guarded}
    CmdsOf <- OnePlugin
    Guarded = {guarded}
    Interactive = {}
    Invokers = {"io", "hk"}
    Watchers = {}
PROPERTIES
    NoCallAfterShutdown
