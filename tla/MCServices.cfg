SPECIFICATION ServicesSpec
CONSTANTS
    Slug = {a}
    Req = {r1, r2, r3}
    Gone = Gone
    None = None
    Roomy = {1}
    Event = {e1, e2, e3}
    QueueSize = 2
    RecentFiles = 2
    DefaultPage = 1
    MaxPage = 2
    PerDay = 1
    MaxTime = 2
    MaxFaults = 2
    Never = Never
INVARIANTS ServicesTypeOK KeysKept AuditIsKept RecentIsLatest
PROPERTIES AtomicUnlessRaced Settles
CHECK_DEADLOCK FALSE
