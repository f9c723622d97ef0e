SPECIFICATION OneConsoleSpec
CONSTANTS
    NR_SHELLS = 2
    Shells = {s1, s2}
    None = None
    Foreign = Foreign
    MaxKeys = 1
    TypedKeys = {2}
    SwitchesFast = FALSE
PROPERTIES ExitedWindowsClose EndsWithLastWindow
