SPECIFICATION Spec
CONSTANTS
    Idle = Idle
    InputBytes <- AllBytes
    NPAR = 8
    Word = 16
    DcsUnit = 2
    AllocFails = FALSE
    MaxSequence = 12
    MaxDcs = 3
    W = 3
    Narrow = {sp, a}
    Wide = {w}
    Space = sp
    Bold = {a}
    Shapes = {"block"}
    MaxOps = 2
    NR_DIRECT_COLORS = 3
    Rgb <- MCRgb
    DefaultFg <- MCFg
    DefaultBg <- MCBg
    SgrSequences <- MCSgr
    CellNames = {c1}
    MaxRequests = 4
    Cols = 2
    Rows = 3
    CellW = 2
    CellH = 5
    Registers = {0, 1}
    SixelBits <- MCBits
    SixelWidths <- MCWidths
    Counts = {0, 3, 20}
    MaxCommands = 4
    StoreW = 4
    Blocks = {b1, b2, b3, b4, b5}
    Null = null
    SelW = 4
    SelH = 2
    SelHistory = 1
    RowTexts <- MCTexts
    WordCells = {"a", "L", "R"}
    MaxEvents = 4
    Fonts <- MCFonts
    TermW = 10
    TermH = 3
    Params = {0, 2, 65535}
    TypedTo = {4, 9, 10}
    MaxMotions = 4
INVARIANTS CharactersAreRead RowAndCursorShown ColoursAreKept ImagesAreKept
PROPERTY SelectionIsKept
CHECK_DEADLOCK FALSE
