SPECIFICATION MCPSpec
CONSTANTS
    v1 = v1
    v2 = v2
    n1 = n1
    n2 = n2
    t1 = t1
    plug = plug
    hp = hp
    Slug = {a}
    Ver = {v1, v2}
    Type = {t1, plug}
    Name = {n1, n2}
    Refs <- MCRefs
    Registered = {t1, plug}
    Plugin = {plug}
    Handle = {h1, h2, h3, h4, hp}
    Shared <- MCShared
    Caller = {c1}
    Ticker = Ticker
    None = None
    Overlap = FALSE
    External = FALSE
    Client = {k1}
INVARIANT ReflectsLatest
