SPECIFICATION Spec
CONSTANTS
    v1 = v1
    v2 = v2
    n1 = n1
    n2 = n2
    t1 = t1
    plug = plug
    unknown = unknown
    hp = hp
    Slug = {a, b}
    Ver = {v1}
    Type = {t1, plug, unknown}
    Name = {n1}
    Refs <- MCRefsPlugin
    Registered = {t1, plug}
    Plugin = {plug}
    Handle = {h1, hp}
    Shared <- MCShared
    Caller = {c1}
    Ticker = Ticker
    None = None
    Overlap = FALSE
    External = FALSE
INVARIANT AllUsable
