------------------------------ MODULE MCDevice ------------------------------
(***************************************************************************)
(* Model checking of what stands between the windows and the machine: the  *)
(* video devices, panning, the double buffer, glyphs, pixels and fonts on  *)
(* the way out, key codes and pipes on the way in, and the configuration.  *)
(* As in MCTerm a behaviour is one of a single part; the variables of the  *)
(* others are Unused.                                                      *)
(***************************************************************************)
EXTENDS ScreenPan, DisplaySwap, GlyphDraw, PixelFormats, FontCache, IoPipe,
        Config, KeyInput, VideoDevice, Session, BoxDraw

CONSTANTS Unused,
          Builds, Blitters, Screens, Places, Extents, ImPictures, ImRects, ImUsages,
          NoContext, NoCall
VARIABLES part,
          build, rgaCtx, made, mAvailable, wanted, answer, sent    \* RgaRequest's

Rga == INSTANCE RgaRequest

\* Devices from 1.003 on, and pictures and rectangles in whole pixels; one
\* without a side is NoRect.
ASSUME RgaAssumption ==
    /\ Blitters \subseteq [number : Nat, svn : STRING] /\ \A v \in Blitters : v.number >= 1003
    /\ Screens \subseteq [w : Nat, h : Nat, pad : Nat]
    /\ Places \subseteq Nat /\ Extents \subseteq Nat
    /\ ImPictures \subseteq [addr : {"virtual", "physical", "none"}, at : Nat, w : Nat, h : Nat,
                              ws : Nat, hs : Nat, format : Nat]
    /\ ImRects \subseteq [x : Nat, y : Nat, w : Nat, h : Nat]
    /\ \A r \in ImRects : r.w = 0 \/ r.h = 0 => r = Rga!NoRect
    /\ \A u \in ImUsages : u.fill \in BOOLEAN

requestVars == <<build, rgaCtx, made, mAvailable, wanted, answer, sent>>
vars == <<part, panVars, swapVars, drawing, boxes, px, fontVars, pipeVars, configVars, keyVars, videoVars, sessionVars, requestVars>>

-----------------------------------------------------------------------------
(* Instances *)

\* Upright, upside down and on its sides; panned, wrapped; of a depth the
\* requests do not fit.
ADisplay(rot, scroll, xres, yres, pitch, virtual, bpp) ==
    [rot |-> rot, scroll |-> scroll, xres |-> xres, yres |-> yres, pitch |-> pitch,
     virtual |-> virtual, lines |-> virtual, bpp |-> bpp]
MCDisplays ==
    {ADisplay(180, "Redraw", 2, 3, 3, 4, 32), ADisplay(90, "Redraw", 3, 2, 3, 2, 8),
     ADisplay(0, "YPan", 2, 3, 2, 5, 32), ADisplay(180, "YWrap", 2, 3, 2, 4, 16),
     ADisplay(270, "Redraw", 2, 3, 2, 3, 32), ADisplay(0, "Redraw", 2, 2, 2, 2, 15)}
ADrawing(kind, x, y, w, h) == [kind |-> kind, x |-> x, y |-> y, w |-> w, h |-> h]
MCDrawings ==
    {ADrawing("rect", 0, 1, 1, 1), ADrawing("rect", 1, 1, 2, 2),
     ADrawing("fill", 0, 0, 2, 2), ADrawing("sixel", 1, 0, 1, 2)}

MCCellSizes == {[w |-> 6, h |-> 7], [w |-> 7, h |-> 6], [w |-> 8, h |-> 13]}

GlyphShapes == [left : {-1, 0, 1}, top : {0, 1}, width : {1, 3}, height : {2, 3}]

\* Three regular fonts, of which two share a family and the third may not open
\* or have outlines; a bold list whose first font has other characters only.
AFont(family, has, opens, scalable, narrow) ==
    [family |-> family, has |-> has, opens |-> opens, scalable |-> scalable, narrow |-> narrow]
MCFontsets ==
    [plain : {<<AFont("a", first, TRUE, TRUE, {"b"}), AFont("a", {"b"}, TRUE, TRUE, {}),
                AFont("b", {"b", "u"}, o, s, {"b", "u"})>> :
               first \in {{"b"}, {"u"}}, o, s \in BOOLEAN},
     bold : {<<>>, <<AFont("c", {"u", "f"}, TRUE, TRUE, {}), AFont("b", {"b"}, TRUE, TRUE, {})>>},
     italic : {<<>>, <<AFont("i", {"b", "f"}, TRUE, TRUE, {})>>}]

MCOptionKeys == [history |-> <<"h">>, colour |-> <<"c">>, width |-> <<"w">>,
                 ambiguous |-> <<"a">>, codecs |-> <<"e">>]
MCConfigLines ==
    {<<"h", "=", "7", "0", "0", "0", "0">>, <<" ", "h", "=", "-", "1", " ">>,
     <<"#", "h", "=", "1">>, <<"h", "=">>, <<"h", " ", "=", "1">>,
     <<"c", "=", "#", "7", "7", "7", "7", "7", "F">>, <<"c", "=", "7", "7", "7">>,
     <<"w", "=", "+", "1">>, <<"w", "=", "-", "7">>, <<"w", "=", "7", "x">>,
     <<"e", "=", "a", ",", "b", ",", ",", ",", "a">>, <<"a", "=", "y", "e", "s">>}
MCArguments == {[key |-> <<"h">>, val |-> <<"7">>], [key |-> <<"w">>, val |-> <<>>],
                [key |-> <<"e">>, val |-> <<"a", ",", "b">>]}
MCDigits == [x \in {"0", "1", "7"} |-> CASE x = "0" -> 0 [] x = "1" -> 1 [] x = "7" -> 7]

MCSym(k, shifts) ==
    CASE k \in {"lshift", "rshift"} -> [type |-> "shift", value |-> "shift"]
      [] k = "caps" -> [type |-> "spec", value |-> "caps"]
      [] k = "pad" -> [type |-> "pad", value |-> "8"]
      [] k = "hex8" -> [type |-> "ascii", value |-> "8", digit |-> 8, base |-> 16]

AMode(x, y, bpp, usable) == [x |-> x, y |-> y, bpp |-> bpp, usable |-> usable]
MCModes == {AMode(2, 2, 8, TRUE), AMode(2, 2, 32, TRUE), AMode(3, 3, 16, TRUE),
            AMode(5, 2, 16, TRUE), AMode(3, 3, 32, TRUE), AMode(9, 9, 32, FALSE)}
MCModeLists == UNION {[1 .. n -> MCModes] : n \in 0 .. 3}
MCBlitters == {[number |-> p[1], svn |-> p[2]] : p \in
    {<<1003, "0">>, <<1300, "0">>, <<1600, "0">>, <<2000, "0">>, <<3000, "22245">>,
     <<3020, "0">>, <<3200, "56726">>, <<4000, "23998">>, <<42000, "4560">>}}
\* A line longer than the oldest device can do, and lines with a gap after them.
MCScreens == {[w |-> 2052, h |-> 4, pad |-> 0], [w |-> 128, h |-> 66, pad |-> 2]}
APicture(addr, w, h, ws, format) ==
    [addr |-> addr, at |-> 0, w |-> w, h |-> h, ws |-> ws, hs |-> h, format |-> format]
\* 32 bits by its old name, 16 bits, a plane with colour, no address, no format.
MCPictures ==
    {APicture("virtual", 8, 12, 16, 3), APicture("physical", 12, 8, 12, 4 * 256),
     APicture("virtual", 200, 12, 200, 10), APicture("none", 8, 8, 8, 0),
     APicture("virtual", 8, 12, 8, 65536)}
MCRects == {[x |-> 0, y |-> 0, w |-> 0, h |-> 0], [x |-> 6, y |-> 4, w |-> 6, h |-> 8],
            [x |-> 2, y |-> 4, w |-> 6, h |-> 4], [x |-> 4, y |-> 0, w |-> 4, h |-> 6]}
MCUsages ==
    [fill : {FALSE}, rotate : {"none", "ROT_90", "ROT_180", "ROT_270"},
     flip : {"none", "FLIP_H", "FLIP_H_V"}, blend : {"none", "SRC_OVER", "DST_OVER"},
     sync : {"0", "1"}]
    \cup [fill : {TRUE}, rotate : {"none"}, flip : {"none"}, blend : {"none"},
          sync : {"1"}]

MCImOf == [s \in {"s1", "s2"} |-> IF s = "s1" THEN "i1" ELSE "i2"]

MCFrameBuffers ==
    {NoFb, [type |-> "packed", bpp |-> 8, visual |-> "pseudo"],
     [type |-> "packed", bpp |-> 16, visual |-> "true"],
     [type |-> "packed", bpp |-> 16, visual |-> "direct"],
     [type |-> "planes", bpp |-> 8, visual |-> "pseudo"]}

-----------------------------------------------------------------------------
NoPan == scr = Unused /\ win = Unused
NoSwap == /\ display = Unused /\ mOffset = Unused /\ rga = Unused
          /\ stale = Unused /\ unnoted = Unused /\ waiting = Unused
NoDrawing == drawing = Unused
NoBoxes == boxes = Unused
NoPixels == px = Unused
NoFonts == fonts = Unused /\ faces = Unused /\ cache = Unused /\ drawn = Unused
NoPipe == /\ pipe = Unused /\ got = Unused /\ arrived = Unused /\ written = Unused
          /\ switches = Unused
NoConfig == /\ mConfigEntrys = Unused /\ readLines = Unused /\ readArgs = Unused
            /\ said = Unused /\ settings = Unused
NoKeys == /\ held = Unused /\ raw = Unused /\ key_down = Unused /\ down_num = Unused
          /\ shift_down = Unused /\ im = Unused /\ typed = Unused
          /\ keymap = Unused /\ old_val = Unused /\ keysBound = Unused
NoVideo == /\ mode_list = Unused /\ fb = Unused /\ phase = Unused /\ asked = Unused
           /\ next = Unused /\ mode_tmp = Unused /\ device = Unused
           /\ hwMode = Unused /\ hwPalette = Unused
           /\ saved_mode = Unused /\ saved_palette = Unused /\ onConsole = Unused
NoSession == /\ stage = Unused /\ machine = Unused /\ step = Unused /\ fds = Unused
             /\ watched = Unused /\ alive = Unused /\ misused = Unused /\ term = Unused
             /\ inited = Unused /\ atConsole = Unused /\ visits = Unused
NoRga == /\ build = Unused /\ rgaCtx = Unused /\ made = Unused /\ mAvailable = Unused
         /\ wanted = Unused /\ answer = Unused /\ sent = Unused

Init ==
    \/ /\ part = "pan" /\ PanInit
       /\ NoSwap /\ NoDrawing /\ NoBoxes /\ NoPixels /\ NoFonts /\ NoPipe /\ NoConfig /\ NoKeys /\ NoVideo /\ NoSession /\ NoRga
    \/ /\ part = "swap" /\ SwapInit
       /\ NoPan /\ NoDrawing /\ NoBoxes /\ NoPixels /\ NoFonts /\ NoPipe /\ NoConfig /\ NoKeys /\ NoVideo /\ NoSession /\ NoRga
    \/ /\ part = "glyph" /\ DrawInit
       /\ NoPan /\ NoSwap /\ NoBoxes /\ NoPixels /\ NoFonts /\ NoPipe /\ NoConfig /\ NoKeys /\ NoVideo /\ NoSession /\ NoRga
    \/ /\ part = "box" /\ BoxInit
       /\ NoPan /\ NoSwap /\ NoDrawing /\ NoPixels /\ NoFonts /\ NoPipe /\ NoConfig /\ NoKeys /\ NoVideo /\ NoSession /\ NoRga
    \/ /\ part = "pixel" /\ PixelInit
       /\ NoPan /\ NoSwap /\ NoDrawing /\ NoBoxes /\ NoFonts /\ NoPipe /\ NoConfig /\ NoKeys /\ NoVideo /\ NoSession /\ NoRga
    \/ /\ part = "font" /\ FontInit
       /\ NoPan /\ NoSwap /\ NoDrawing /\ NoBoxes /\ NoPixels /\ NoPipe /\ NoConfig /\ NoKeys /\ NoVideo /\ NoSession /\ NoRga
    \/ /\ part = "pipe" /\ PipeInit
       /\ NoPan /\ NoSwap /\ NoDrawing /\ NoBoxes /\ NoPixels /\ NoFonts /\ NoConfig /\ NoKeys /\ NoVideo /\ NoSession /\ NoRga
    \/ /\ part = "config" /\ ConfigInit
       /\ NoPan /\ NoSwap /\ NoDrawing /\ NoBoxes /\ NoPixels /\ NoFonts /\ NoPipe /\ NoKeys /\ NoVideo /\ NoSession /\ NoRga
    \/ /\ part = "keys" /\ KeyInit
       /\ NoPan /\ NoSwap /\ NoDrawing /\ NoBoxes /\ NoPixels /\ NoFonts /\ NoPipe /\ NoConfig /\ NoVideo /\ NoSession /\ NoRga
    \/ /\ part = "video" /\ VideoInit
       /\ NoPan /\ NoSwap /\ NoDrawing /\ NoBoxes /\ NoPixels /\ NoFonts /\ NoPipe /\ NoConfig /\ NoKeys /\ NoSession /\ NoRga
    \/ /\ part = "session" /\ SessionInit
       /\ NoPan /\ NoSwap /\ NoDrawing /\ NoBoxes /\ NoPixels /\ NoFonts /\ NoPipe /\ NoConfig /\ NoKeys /\ NoVideo /\ NoRga
    \/ /\ part = "rga" /\ Rga!RgaInit
       /\ NoPan /\ NoSwap /\ NoDrawing /\ NoBoxes /\ NoPixels /\ NoFonts /\ NoPipe /\ NoConfig /\ NoKeys /\ NoVideo /\ NoSession

\* What stays as it is while another part moves.
IdleOut == UNCHANGED <<panVars, swapVars, drawing, boxes, px, fontVars, videoVars>>
IdleIn == UNCHANGED <<pipeVars, configVars, keyVars, sessionVars, requestVars>>

Next ==
    /\ UNCHANGED part
    /\ \/ /\ part = "pan" /\ PanNext
          /\ UNCHANGED <<swapVars, drawing, boxes, px, fontVars, videoVars>> /\ IdleIn
       \/ /\ part = "swap" /\ SwapNext
          /\ UNCHANGED <<panVars, drawing, boxes, px, fontVars, videoVars>> /\ IdleIn
       \/ /\ part = "glyph" /\ DrawNext
          /\ UNCHANGED <<panVars, swapVars, boxes, px, fontVars, videoVars>> /\ IdleIn
       \/ /\ part = "box" /\ BoxNext
          /\ UNCHANGED <<panVars, swapVars, drawing, px, fontVars, videoVars>> /\ IdleIn
       \/ /\ part = "pixel" /\ PixelNext
          /\ UNCHANGED <<panVars, swapVars, drawing, boxes, fontVars, videoVars>> /\ IdleIn
       \/ /\ part = "font" /\ FontNext
          /\ UNCHANGED <<panVars, swapVars, drawing, boxes, px, videoVars>> /\ IdleIn
       \/ /\ part = "video" /\ VideoNext
          /\ UNCHANGED <<panVars, swapVars, drawing, boxes, px, fontVars>> /\ IdleIn
       \/ /\ part = "pipe" /\ PipeNext
          /\ UNCHANGED <<configVars, keyVars, sessionVars, requestVars>> /\ IdleOut
       \/ /\ part = "config" /\ ConfigNext
          /\ UNCHANGED <<pipeVars, keyVars, sessionVars, requestVars>> /\ IdleOut
       \/ /\ part = "keys" /\ KeyNext
          /\ UNCHANGED <<pipeVars, configVars, sessionVars, requestVars>> /\ IdleOut
       \/ /\ part = "session" /\ SessionNext
          /\ UNCHANGED <<pipeVars, configVars, keyVars, requestVars>> /\ IdleOut
       \/ /\ part = "rga" /\ Rga!RgaNext
          /\ UNCHANGED <<pipeVars, configVars, keyVars, sessionVars>> /\ IdleOut

Spec == Init /\ [][Next]_vars

-----------------------------------------------------------------------------
(* Properties *)

\* Whatever was scrolled, in parts or past the end of the video memory, the
\* display shows the rows of the window (Screen::move, eraseMargin).
PannedWindowIsShown == part = "pan" => WindowIsShown

\* Between two handlers the display shows all that was drawn (markDirty,
\* addDirtyRect, swapBuffers); a copy or a fill that the blitter's library says
\* it did touches the bytes meant and no others (RgaAdapter, imcheck_t, RgaBlit).
\* DisplayIsCurrent says where the display is excused: panned and turned screens.
BuffersAgree ==
    /\ part = "swap" => SwapTypeOK /\ DisplayIsCurrent
    /\ part = "rga" => Rga!DoneAsAsked

\* A run of text and each glyph of it come out whole and upright, frames of box
\* characters have no gaps, and blending keeps each component of a pixel between
\* its two colours, at every depth (Screen::drawText, drawGlyph, drawBoxChar,
\* screen_render.cpp, screen_sixel.cpp); GlyphIsUpright names the glyphs moved.
TextIsDrawn ==
    /\ part = "glyph" => GlyphIsUpright /\ TextRunsWhole
    /\ part = "box" => BoxesJoin
    /\ part = "pixel" =>
         /\ BlendStaysBetween /\ ImageBlendStaysBetween
         /\ RowIsCovered /\ NeonAgrees /\ OnePixelPerColour

\* A glyph has its character and exactly the style asked for, whatever was
\* cached and whichever fonts are open; an icon narrowed has the character and
\* no other style (Font::getGlyph, getNarrowGlyph, fontIndex).
GlyphsHaveStyle == part = "font" => StyleIsKept /\ BasicCharsShown

\* Bytes are converted once each, however reads cut them, and what is typed
\* arrives in order (IoPipe::ready, translate, writeIo).
BytesPassOnce ==
    part = "pipe" => PipeTypeOK /\ EveryByteOnce /\ PortionsDoNotShow /\ TypedArrives

\* What was said last about an option counts and is brought into range
\* (Config::addEntry, parseArgs and the readers of options).
OptionsAreObeyed == part = "config" => LastWordWins /\ SettingsInRange

\* Neither shortcuts nor the input method see a key held that is not, a
\* composed number becomes its character, and the kernel gets its keymap back
\* (TtyInput, lib keycode.c).
KeysAreSeen ==
    part = "keys" => /\ KeysTypeOK /\ NoStuckModifier /\ ImSeesTheKeys
                     /\ ComposedIsCharacter /\ KeymapGivenBack

\* The mode chosen is one of the card that no mode passed is better than;
\* whoever owns the console afterwards finds mode, palette, keymap, keyboard,
\* terminal and cursor as they were, wherever the program ends and whatever
\* failed at its start; and nothing deleted on the way is used or left behind
\* (VesaDev::get_mode, FbDev::setupPalette, FbTerm::init, run, ~FbTerm,
\* ~FbIoDispatcher, ~TtyInput).
EverythingGivenBack ==
    /\ part = "video" => BestSoFar /\ ConsoleGivenBack
    /\ part = "session" => TerminalGivenBack /\ NothingUsedAfterDelete /\ NothingLeftBehind
=============================================================================
