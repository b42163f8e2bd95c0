SPECIFICATION Spec
CONSTANTS
    Slug = {a, b}
    Ver = {v1, v2}
    NoFile = NoFile
    Bad = Bad
    None = None
    NoEvent = NoEvent
    Caller = {}
    Task = {t1}
    MaxEvents = 2
    MaxTries = 2
    Misnamed = FALSE
    Apart = FALSE
    Prompt = TRUE
INVARIANT StaleIsPending
