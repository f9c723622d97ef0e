SPECIFICATION LoopSpec
CONSTANTS
    NR_SHELLS = 2
    Shells = {s1, s2, s3}
    None = None
    Foreign = Foreign
    MaxKeys = 2
    TypedKeys = {0, 1, 2, 6}
    SwitchesFast = FALSE
INVARIANT KeysReachActiveWindow
