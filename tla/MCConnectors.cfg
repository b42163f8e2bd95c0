SPECIFICATION ConnectorsSpec
CONSTANTS
    c1 = c1
    c2 = c2
    root = root
    d = d
    f = f
    Path = {root, d, f}
    Root = root
    Parent <- MCParent
    Order <- MCOrder
    Matching = {d, f}
    Inode = {i1, i2}
    Dir = Dir
    Nothing = Nothing
    Block = {1, 2}
    Texts <- MCTexts
    Limits = {0, 1}
    DefaultLimit = 1
    Wanted = {1, 2}
    FileClient = {c1, c2}
    GitCaller = {c1}
    MaxCommits = 3
    LogCaps <- MCLimits
    DefaultCap = 2
    Counts <- MCCounts
    Unset = Unset
    MaxInt = 3
    Unlimited = 2
    MaxConfig <- MCMaxConfig
    MaxBody = 4
    NoAnswer = NoAnswer
    getA = getA
    putA = putA
    getB = getB
    Op = {getA, putA, getB}
    PathRank <- MCPathRank
    ToolName <- MCToolName
    Needy = {putA}
    Rates <- MCRates
    Ticks = 2
    Free = Free
    SwagCaller = {c1, c2}
    ObjCaller = {c1, c2}
    Bucket = {b}
    MaxKey = 2
    Content = {v1}
    PageSizes <- MCCounts
    DefaultPage = 1
    LargestPage = 2
    Gone = Gone
    Slip = "Slip"
    SqlCaller = {c1, c2}
    SqlTable = {t1}
    Catalog = {columns}
    RowCaps <- MCLimits
    MaxResult = 2
    Off = Off
INVARIANTS ConnectorsTypeOK RequestsAreWhole ResultsAreWhole WritesTakeEffect
    RateIsBounded
PROPERTIES StableNames CallsEnd
CHECK_DEADLOCK FALSE
