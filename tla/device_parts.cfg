SPECIFICATION Spec
CONSTANTS
    Unused = Unused
    mRows = 5
    FontHeight = 2
    mHeight = 11
    Virtual = {11, 15}
    Steps = {0, 1, 2}
    Texts = {"a", "b"}
    Displays <- MCDisplays
    Drawings <- MCDrawings
    MAX_DIRTY_RECTS = 2
    ScreenW = 5
    ScreenH = 4
    CellW = 2
    CellH = 3
    Glyphs <- GlyphShapes
    MaxRun = 5
    CellSizes <- MCCellSizes
    NoBox = NoBox
    Levels = {0, 7, 255}
    Coverage = {0, 127, 128, 255}
    MaxWidth = 40
    Basic = {"b"}
    Upper = {"u"}
    Far = {"f"}
    Fontsets <- MCFontsets
    BUF_SIZE = 3
    MaxBytes = 4
    MaxSwitches = 1
    Lines <- MCConfigLines
    Arguments <- MCArguments
    OptionKeys <- MCOptionKeys
    Digits <- MCDigits
    HexDigits = {"7", "F"}
    NaturalCell = 6
    ScreenSize = 20
    MaxLines = 2
    MaxArguments = 2
    NR_CODECS = 2
    Keys = {"lshift", "rshift", "caps", "hex8", "pad"}
    Modifiers = {"shift"}
    Sym <- MCSym
    SysKeys = {"s1", "s2"}
    ImKeys = {"s2"}
    HasIm = FALSE
    MaxPad = 70000
    Modes <- MCModes
    ModeLists <- MCModeLists
    FrameBuffers <- MCFrameBuffers
    NoFb = NoFb
    NoMode = NoMode
    Palettes = {"p", "q"}
    Windows = {"s1", "s2"}
    ImOf <- MCImOf
    NR_FDS = 32
    MaxVisits = 2
    Builds = {"im2d", "old"}
    Blitters <- MCBlitters
    Screens <- MCScreens
    Places = {0, 2}
    Extents = {1, 2, 3, 64, 65, 126, 2050}
    ImPictures <- MCPictures
    ImRects <- MCRects
    ImUsages <- MCUsages
    NoContext = NoContext
    NoCall = NoCall
INVARIANTS PannedWindowIsShown BuffersAgree TextIsDrawn GlyphsHaveStyle
    BytesPassOnce OptionsAreObeyed KeysAreSeen EverythingGivenBack
CHECK_DEADLOCK FALSE
