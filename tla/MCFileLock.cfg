SPECIFICATION FairSpec
CONSTANTS
    w1 = w1
    w2 = w2
    p1 = p1
    p2 = p2
    Writer = {w1, w2}
    Process = {p1, p2}
    ProcessOf <- MCProcessOf
    Reader = {r1}
    Value = {v1, v2}
    Torn = Torn
    Inode = {i1, i2, i3}
    None = None
    MaxAttempts = 2
INVARIANTS TypeOK MutualExclusion NeverTorn
PROPERTIES StableReads OrphanBlocksSaves OnlyFailureOrphans IsAtomicFile SaveReturns
