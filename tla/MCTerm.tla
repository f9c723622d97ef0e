------------------------------- MODULE MCTerm -------------------------------
(***************************************************************************)
(* Model checking of the parts of a terminal: what VTerm does with the     *)
(* bytes of a program, between the main loop and the lines of VTermLines.  *)
(* The parts share no state worth interleaving, so that a behaviour is one *)
(* of a single part, chosen at the start; the variables of the others are  *)
(* Idle.  The parser is run on four alphabets, one per kind of input.      *)
(***************************************************************************)
EXTENDS EscapeParser, VTermRow, TermAttrs, SixelCanvas, PixmapStore,
        TextSelection, CharWidth

CONSTANTS Idle, TermW, TermH, Params, TypedTo, MaxMotions

VARIABLE part
VARIABLES pos, rights, motion    \* CursorMotion's

Cursor == INSTANCE CursorMotion

\* The cursor's window is one that 16 bit words measure; a line of text ends
\* behind a character.
ASSUME MotionAssumption ==
  /\ TermW \in 1 .. Cursor!Words - 1 /\ TermH \in 1 .. Cursor!Words - 1
  /\ Params \subseteq 0 .. Cursor!Words - 1 /\ TypedTo \subseteq 1 .. TermW
  /\ MaxMotions \in Nat

vars == <<part, pos, rights, motion, parserVars, rowVars, attrVars, sixelVars, storeVars, selVars, widthVars>>

-----------------------------------------------------------------------------
(* Instances *)

\* Lead and continuation bytes around every boundary of a length, a surrogate,
\* U+FFFE, ASCII, and the bytes that break a character off.
Utf8Bytes == {65, 128, 130, 152, 159, 160, 169, 172, 192, 195, 226, 237, 240, 254, 27, 24}
CsiBytes == {27, 91, 59, 49, 109, 24}
DcsBytes == {27, 80, 49, 113, 7, 92, 24, 0}
CharsetBytes == {27, 40, 41, 75, 14, 15, 37, 64, 56, 55, 97, 24}
Alphabets == [utf8 |-> Utf8Bytes, csi |-> CsiBytes, dcs |-> DcsBytes, charset |-> CharsetBytes]
Longest == [utf8 |-> 6, csi |-> 12, dcs |-> 8, charset |-> 4]
AllBytes == UNION {Alphabets[a] : a \in DOMAIN Alphabets}

MCRgb == {<<1, 2, 3>>, <<4, 5, 6>>, <<7, 8, 9>>, <<10, 11, 12>>}
MCFg == {<<1, 2, 3>>}
MCBg == {<<4, 5, 6>>}
MCSgr == {<<0>>, <<1, 31>>, <<2>>, <<22, 39>>, <<7, 5>>, <<27, 25>>, <<38, 5, 300>>, <<49>>,
          <<38>>, <<45>>, <<38, 2, 7, 8, 9>>, <<48, 2, 7, 264, 9>>, <<38, 2, 10, 11, 12>>,
          <<48, 2, 1, 2, 3, 4>>}

MCBits == {{0, 3}, {5}}
MCWidths == {2, 6, 40}

MCRow(text) == [x \in 0 .. 3 |-> text[x + 1]]
MCTexts == {MCRow(<<"L", "R", "a", ".">>), MCRow(<<"a", ".", "L", "R">>)}

MCFonts == {<<10, 0>>, <<10, 13>>, <<10, 14>>}

-----------------------------------------------------------------------------
NoParser == parser = Idle /\ taken = Idle /\ emitted = Idle
NoRow == /\ term = Idle /\ screen = Idle /\ mCursor = Idle /\ timer = Idle
         /\ stage = Idle /\ ops = Idle /\ spoiled = Idle
NoAttrs == direct = Idle /\ pen = Idle /\ cells = Idle /\ requests = Idle
NoSixel == canvas = Idle /\ commands = Idle /\ pixmaps = Idle /\ image = Idle
NoStore == heap = Idle /\ row = Idle /\ history = Idle /\ shifted = Idle
NotSelecting == /\ lines = Idle /\ view = Idle /\ reversed = Idle /\ mSelState = Idle
               /\ mSelText = Idle /\ mouse_report = Idle /\ sent = Idle
               /\ events = Idle /\ astray = Idle
NoWidth == ucs = Idle /\ metric = Idle
NoMotion == pos = Idle /\ rights = Idle /\ motion = Idle

motionVars == <<pos, rights, motion>>

Init ==
  \/ /\ part \in DOMAIN Alphabets
     /\ ParserInit /\ NoRow /\ NoAttrs /\ NoSixel /\ NoStore /\ NotSelecting /\ NoWidth /\ NoMotion
  \/ /\ part = "row"
     /\ NoParser /\ RowInit /\ NoAttrs /\ NoSixel /\ NoStore /\ NotSelecting /\ NoWidth /\ NoMotion
  \/ /\ part = "attrs"
     /\ NoParser /\ NoRow /\ AttrInit /\ NoSixel /\ NoStore /\ NotSelecting /\ NoWidth /\ NoMotion
  \/ /\ part = "sixel"
     /\ NoParser /\ NoRow /\ NoAttrs /\ SixelInit /\ NoStore /\ NotSelecting /\ NoWidth /\ NoMotion
  \/ /\ part = "store"
     /\ NoParser /\ NoRow /\ NoAttrs /\ NoSixel /\ StoreInit /\ NotSelecting /\ NoWidth /\ NoMotion
  \/ /\ part = "selection"
     /\ NoParser /\ NoRow /\ NoAttrs /\ NoSixel /\ NoStore /\ SelInit /\ NoWidth /\ NoMotion
  \/ /\ part = "width"
     /\ NoParser /\ NoRow /\ NoAttrs /\ NoSixel /\ NoStore /\ NotSelecting /\ WidthInit /\ NoMotion
  \/ /\ part = "cursor" /\ Cursor!CursorInit
     /\ NoParser /\ NoRow /\ NoAttrs /\ NoSixel /\ NoStore /\ NotSelecting /\ NoWidth

Next ==
  \/ /\ part \in DOMAIN Alphabets
     /\ \E b \in Alphabets[part] : InputByte(b)
     /\ Len(taken') <= Longest[part]
     /\ UNCHANGED <<part, motionVars, rowVars, attrVars, sixelVars, storeVars, selVars, widthVars>>
  \/ /\ part = "row" /\ RowNext
     /\ UNCHANGED <<part, motionVars, parserVars, attrVars, sixelVars, storeVars, selVars, widthVars>>
  \/ /\ part = "attrs" /\ AttrNext
     /\ UNCHANGED <<part, motionVars, parserVars, rowVars, sixelVars, storeVars, selVars, widthVars>>
  \/ /\ part = "sixel" /\ SixelNext
     /\ UNCHANGED <<part, motionVars, parserVars, rowVars, attrVars, storeVars, selVars, widthVars>>
  \/ /\ part = "store" /\ StoreNext
     /\ UNCHANGED <<part, motionVars, parserVars, rowVars, attrVars, sixelVars, selVars, widthVars>>
  \/ /\ part = "selection" /\ SelNext
     /\ UNCHANGED <<part, motionVars, parserVars, rowVars, attrVars, sixelVars, storeVars, widthVars>>
  \/ /\ part = "width" /\ WidthNext
     /\ UNCHANGED <<part, motionVars, parserVars, rowVars, attrVars, sixelVars, storeVars, selVars>>
  \/ /\ part = "cursor" /\ Cursor!CursorNext
     /\ UNCHANGED <<part, parserVars, rowVars, attrVars, sixelVars, storeVars, selVars, widthVars>>

Spec == Init /\ [][Next]_vars

-----------------------------------------------------------------------------
(* Properties *)

\* Bytes become characters, sequences with their parameters, and device
\* control strings with all their data, however one breaks off another
\* (VTerm::input, do_control_char, do_dcs_char); characters get the columns
\* their class and the option ambiguous-wide give them (wcwidth.cpp).
CharactersAreRead ==
  /\ part \in DOMAIN Alphabets =>
       /\ ParserTypeOK /\ CharactersAreDecoded /\ CompleteCharsAreShown
       /\ ParametersAreRead /\ DcsDataComplete /\ DcsFits
  /\ part = "width" => SearchIsMembership /\ WideningIsOneWay

\* Between two calls of VTerm::input the frame buffer shows the row as stored,
\* and the cursor once (do_normal_char, expose, FbShell::updateCursor); the
\* cursor itself goes where stops, margins, the saved position and its own
\* report send it (VTerm::move_cursor, tab, set_margins, restore_cursor).
RowAndCursorShown ==
  /\ part = "row" => RowTypeOK /\ RowIsShown /\ CursorShownOnce
  /\ part = "cursor" =>
       /\ Cursor!CursorOnScreen /\ Cursor!TabStops /\ Cursor!MarginsHold
       /\ Cursor!DirectionKept /\ Cursor!PositionComesBack

\* Direct colours stay those the programs asked for until the table starts
\* over, the default ones for ever, and the flashing cursor gives a cell its
\* colours back (allocDirectColor, set_display_attr, adjustCharAttr).
ColoursAreKept ==
  part = "attrs" =>
    AttrTypeOK /\ DefaultColoursKept /\ TrueColoursKept /\ CursorGivesCellBack

\* A sixel image reaches the cells it covers, whole and without anything of an
\* earlier one, unless it drew past the canvas (strayed), and every pixmap
\* belongs to one cell and is freed with it (vterm_sixel.cpp, free_pixmap).
ImagesAreKept ==
  /\ part = "sixel" => SixelTypeOK /\ CellsShowImage
  /\ part = "store" => PixmapsOwned

\* The reversed cells are the selection, releasing the button keeps them and a
\* double click selects a word (Shell::mouseInput and the functions it calls).
SelectionIsKept ==
  /\ [](part = "selection" => ReversedIsSelected)
  /\ [][part = "selection" => KeepsHighlighted /\ SelectsWord]_vars
=============================================================================
