SPECIFICATION FrontSpec
CONSTANTS
    NR_SHELLS = 3
    Shells = {s1, s2, s3}
    None = None
    Foreign = Foreign
    Entries = {1}
    MaxRequests = 2
INVARIANTS ActiveIsCurrent CountMatchesWindows ConsoleHasWindowModes ScreenHasWindowPalette ImFollowsWindow
PROPERTIES WindowsStay NeighbourTakesOver
