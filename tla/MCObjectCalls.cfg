SPECIFICATION ObjectsSpec
CONSTANTS
    ObjCaller = {c1}
    Bucket = {b}
    MaxKey = 1
    Content = {v1}
    PageSizes = {1}
    DefaultPage = 1
    LargestPage = 1
    Gone = Gone
    Slip = "Slip"
INVARIANT DeleteDeletes
