SPECIFICATION Spec
CONSTANTS
    Tools = {io, hk, third}
    Conds = {c1, c2, c3, c4}
    None = none
INVARIANTS
    TypeOK
    MutualExclusion
    CondLifetime
    NoLostWakeup
PROPERTIES
    EverySuspendServed
    ImplementsActivityLock
