SPECIFICATION LoopSpec
CONSTANTS
    NR_SHELLS = 2
    Shells = {s1, s2, s3}
    None = None
    Foreign = Foreign
    MaxKeys = 2
    TypedKeys = {2, 3}
    SwitchesFast = FALSE
INVARIANT HangUpIsForWindow
