SPECIFICATION LoopSpec
CONSTANTS
    NR_SHELLS = 2
    Shells = {s1, s2, s3}
    None = None
    Foreign = Foreign
    MaxKeys = 1
    TypedKeys = {1, 2, 3, 4, 5, 6}
    SwitchesFast = FALSE
INVARIANTS PipesMatchWindows DrawsOnOwnConsole
PROPERTY ImplementsManager
SYMMETRY Addresses
