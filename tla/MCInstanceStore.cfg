SPECIFICATION FairSpec
CONSTANTS
    Slug = {a}
    Ver = {v1, v2}
    NoFile = NoFile
    Bad = Bad
    None = None
    NoEvent = NoEvent
    Caller = {c1, c2}
    Task = {t1, t2}
    MaxEvents = 3
    MaxTries = 2
    Misnamed = FALSE
    Apart = FALSE
    Prompt = TRUE
INVARIANTS TypeOK StaleIsPending
PROPERTY Converges
