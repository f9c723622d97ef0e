---------------------------- MODULE DisplaySwap -----------------------------
(***************************************************************************)
(* The double buffer of the frame buffer screen (src/src/screen.cpp): all  *)
(* drawing goes to mBackBuffer, and swapBuffers at the end of the handlers *)
(* copies it to the display, either whole or, with the RGA blitter         *)
(* (src/src/rga_adapter.cpp), the rectangles noted as dirty.  What counts  *)
(* is where the display differs from the back buffer.                      *)
(*                                                                         *)
(* What is noted is not always what was drawn: a picture's cell is noted   *)
(* where it would be on a screen that is not panned, and rows that wrap    *)
(* past the end of the memory are noted beyond it.  And the copy of the    *)
(* whole screen has its sides, not the memory's.  Only a frame buffer      *)
(* device (fbdev.cpp) has a back buffer, so nothing pans sideways.         *)
(***************************************************************************)
EXTENDS Integers, Sequences, FiniteSets, FiniteSetsExt

CONSTANTS Displays,     \* [rot, scroll, xres, yres, pitch, virtual, lines, bpp]: the
                        \* memory has `lines' lines of `pitch' pixels
          Drawings,     \* [kind : {"rect", "fill", "sixel"}, x, y, w, h]
          MAX_DIRTY_RECTS

ASSUME SwapAssumption ==
    /\ MAX_DIRTY_RECTS \in Nat
    /\ Displays \subseteq [rot : {0, 90, 180, 270}, scroll : {"Redraw", "YPan", "YWrap"},
                           xres : Nat \ {0}, yres : Nat \ {0}, pitch : Nat \ {0},
                           virtual : Nat, lines : Nat, bpp : {8, 15, 16, 32}]
    /\ \A d \in Displays : /\ d.xres <= d.pitch /\ d.yres <= d.virtual /\ d.virtual <= d.lines
                           /\ d.rot \in {90, 270} => d.scroll = "Redraw"
    /\ Drawings \subseteq [kind : {"rect", "fill", "sixel"}, x : Nat, y : Nat, w : Nat, h : Nat]

VARIABLES display,
          mOffset,   \* mOffsetCur: the line of the memory the screen begins at
          rga,       \* mRgaActive, mDirtyRects and mDirtyOverflow
          stale,     \* places the display does not show as the back buffer has them
          unnoted,   \* those last drawn with another rectangle noted
          waiting    \* those drawn without a swap since: a selection, the pointer

swapVars == <<display, mOffset, rga, stale, unnoted, waiting>>

-----------------------------------------------------------------------------
(* The screen in the memory *)

Turned == display.rot \in {90, 270}
Width == IF Turned THEN display.yres ELSE display.xres
Height == IF Turned THEN display.xres ELSE display.yres

MaxOffset ==
    CASE display.scroll = "Redraw" -> 0
      [] display.scroll = "YPan" -> display.virtual - display.yres
      [] display.scroll = "YWrap" -> display.virtual - 1

Memory == (0 .. display.pitch - 1) \X (0 .. display.lines - 1)

\* A pixel past the end of a line is one of the next.
At(x, y) == <<x % display.pitch, y + (x \div display.pitch)>>

Block(r) == {At(i, j) : i \in r.x .. r.x + r.w - 1, j \in r.y .. r.y + r.h - 1} \cap Memory

\* What a request for a rectangle covers.  At 15 bits RgaAdapter divides the
\* length of a line by 15 and moves by one byte a pixel: none of it for certain.
Covered(r) == IF display.bpp = 15 THEN {} ELSE Block(r)

\* The copy of the whole screen; the lines must have room for its width.
WholeScreen == [x |-> 0, y |-> 0, w |-> Width, h |-> Height]
WholeFits == display.bpp = 15 \/ Width <= display.pitch
Unreached == IF WholeFits THEN Memory \ Covered(WholeScreen) ELSE {}

AtMost(a, b) == IF a <= b THEN a ELSE b

\* fillRectPixel, drawGlyph: cut off at the sides of the screen, then turned.
Clipped(d) == [x |-> d.x, y |-> d.y, w |-> AtMost(d.w, Width - d.x), h |-> AtMost(d.h, Height - d.y)]

TurnedRect(r) ==
    CASE display.rot = 0 -> r
      [] display.rot = 90 -> [x |-> Height - r.y - r.h, y |-> r.x, w |-> r.h, h |-> r.w]
      [] display.rot = 180 -> [r EXCEPT !.x = Width - r.x - r.w, !.y = Height - r.y - r.h]
      [] display.rot = 270 -> [x |-> r.y, y |-> Width - r.x - r.w, w |-> r.h, h |-> r.w]

\* adjustOffset
Panned(r, offset) == [r EXCEPT !.y = @ + offset]

\* The rows a loop of the processor draws, begun again at the first line.
Wrapped(j) == IF display.scroll = "YWrap" /\ j > MaxOffset THEN j - (MaxOffset + 1) ELSE j
RowsOf(r) ==
    {At(i, Wrapped(j)) : i \in r.x .. r.x + r.w - 1, j \in r.y .. r.y + r.h - 1} \cap Memory

\* The rectangle marked as dirty: drawSixelCell, which does not turn, remembers
\* the cell from before adjustOffset and as large as it is off the screen.
NotedFor(d, offset) ==
    IF d.kind = "sixel" THEN [x |-> d.x, y |-> d.y, w |-> d.w, h |-> d.h]
    ELSE Panned(TurnedRect(Clipped(d)), offset)

\* What is drawn: by the processor, or filled by the blitter, which knows no
\* wrapping and whose lines at 15 bits are anywhere.
PlacesOf(d, offset) ==
    CASE d.kind = "rect" -> RowsOf(NotedFor(d, offset))
      [] d.kind = "fill" -> IF display.bpp = 15 THEN Memory ELSE Covered(NotedFor(d, offset))
      [] d.kind = "sixel" -> Block(Panned(Clipped(d), offset))

-----------------------------------------------------------------------------
(* RgaAdapter's list *)

\* mutant: a rectangle that finds no room is not noted at all
addDirtyRect_Drops(q, r) ==
    IF Len(q.mDirtyRects) >= MAX_DIRTY_RECTS THEN q
    ELSE [q EXCEPT !.mDirtyRects = Append(@, r)]

addDirtyRect(q, r) ==
    IF q.mDirtyOverflow THEN q
    ELSE IF Len(q.mDirtyRects) >= MAX_DIRTY_RECTS THEN [q EXCEPT !.mDirtyOverflow = TRUE]
    ELSE [q EXCEPT !.mDirtyRects = Append(@, r)]

markDirty(q, r) == IF q.mRgaActive /\ r.w # 0 /\ r.h # 0 THEN addDirtyRect(q, r) ELSE q

clearDirtyRects(q) == [q EXCEPT !.mDirtyRects = <<>>, !.mDirtyOverflow = FALSE]

TotalArea(q) ==
    MapThenSumSet(LAMBDA i : q.mDirtyRects[i].w * q.mDirtyRects[i].h, DOMAIN q.mDirtyRects)

\* flushDirtyRects tries only if few pixels are dirty, none was lost count of.
Flushes(q) ==
    /\ q.mDirtyRects # <<>>
    /\ ~q.mDirtyOverflow
    /\ TotalArea(q) <= (Width * Height * 60) \div 100

Noted(q, n) == UNION {Covered(q.mDirtyRects[i]) : i \in 1 .. n}

-----------------------------------------------------------------------------
(* Drawing and swapping, on a buffer [rga, stale, unnoted] *)

Buffer == [rga |-> rga, stale |-> stale, unnoted |-> unnoted]

\* swapBuffers: the outcomes the blitter leaves.  A blit may fail at any
\* rectangle; then the blitter copies the whole screen, or the processor copies
\* the whole memory, from then on for good.
SwapResults(b) ==
    LET q == b.rga
        n == Len(q.mDirtyRects)
        all == [rga |-> [q EXCEPT !.mRgaActive = FALSE], stale |-> {}, unnoted |-> {}]
        left(copied) == [rga |-> clearDirtyRects(q), stale |-> b.stale \ copied,
                         unnoted |-> b.unnoted \ copied]
    IN  IF ~q.mRgaActive THEN {all}
        ELSE {all}
             \cup (IF Flushes(q) THEN {left(Noted(q, n))} ELSE {})
             \cup {left(Noted(q, k) \cup Covered(WholeScreen)) :
                     k \in IF ~WholeFits THEN {} ELSE IF Flushes(q) THEN 0 .. n - 1 ELSE {0}}

\* One drawing; large rectangles are filled by the blitter if it can.
Drawn(b, d, offset) ==
    LET places == PlacesOf(d, offset)
        noted == NotedFor(d, offset)
    IN  [rga |-> markDirty(b.rga, noted),
         stale |-> b.stale \cup places,
         unnoted |-> b.unnoted \cup (places \ Covered(noted))]

Possible(b) ==
    {d \in Drawings : d.x < Width /\ d.y < Height /\ (d.kind = "fill" => b.rga.mRgaActive)}

\* A handler may draw or not.
MayDraw(b, offset) == {b} \cup {Drawn(b, d, offset) : d \in Possible(b)}

Becomes(b) == rga' = b.rga /\ stale' = b.stale /\ unnoted' = b.unnoted

\* The handler ends with a swap.
Swaps(b) ==
    /\ \E result \in SwapResults(b) : Becomes(result)
    /\ waiting' = {}

-----------------------------------------------------------------------------
\* initDoubleBuffer copies the display; the blitter may be there or not.
SwapInit ==
    /\ display \in Displays /\ mOffset = 0
    /\ \E active \in BOOLEAN :
          rga = [mRgaActive |-> active, mDirtyRects |-> <<>>, mDirtyOverflow |-> FALSE]
    /\ stale = {} /\ unnoted = {} /\ waiting = {}

\* FbShell::readyRead with the program's output, of any window, and the handlers
\* of FbShellManager (switchShell, switchVc, historyScroll and the others): one
\* draws, pans the screen, draws there and swaps.
DrawsAndSwaps ==
    /\ \E b \in MayDraw(Buffer, mOffset), offset \in 0 .. MaxOffset :
          /\ mOffset' = offset
          /\ \E c \in MayDraw(b, offset) : Swaps(c)
    /\ UNCHANGED display

\* FbShell::drawCursor swaps for itself, in the middle of a handler that may
\* go on drawing: the handler swaps again.
CursorFlash ==
    /\ \E b \in MayDraw(Buffer, mOffset) :
          \E first \in SwapResults(b) : \E c \in MayDraw(first, mOffset) : Swaps(c)
    /\ UNCHANGED <<display, mOffset>>

\* ImProxy::readyRead swaps when a message of its buffer was drawn.
ImDraws ==
    /\ \E d \in Possible(Buffer) :
          \E c \in MayDraw(Drawn(Buffer, d, mOffset), mOffset) : Swaps(c)
    /\ UNCHANGED <<display, mOffset>>

\* Shell::textSelect and the mouse pointer of FbShell::mouseInput draw only.
SelectText ==
    /\ \E d \in Possible(Buffer) :
          /\ Becomes(Drawn(Buffer, d, mOffset))
          /\ waiting' = waiting \cup PlacesOf(d, mOffset)
    /\ UNCHANGED <<display, mOffset>>

SwapNext == DrawsAndSwaps \/ CursorFlash \/ ImDraws \/ SelectText

SwapSpec == SwapInit /\ [][SwapNext]_swapVars

-----------------------------------------------------------------------------
SwapTypeOK ==
    /\ display \in Displays /\ mOffset \in 0 .. MaxOffset
    /\ rga.mRgaActive \in BOOLEAN /\ rga.mDirtyOverflow \in BOOLEAN
    /\ Len(rga.mDirtyRects) <= MAX_DIRTY_RECTS
    /\ stale \subseteq Memory /\ unnoted \subseteq Memory /\ waiting \subseteq Memory

\* Between handlers the display shows all that was drawn, except a selection or
\* pointer that no handler has followed: no limit of the list of rectangles and
\* no failing blit loses one.  On a panned screen this is excused where another
\* rectangle was noted than drawn and where the copy of the whole screen does
\* not reach, on a turned one only there; without the blitter, nowhere.
DisplayIsCurrent ==
    /\ stale \subseteq waiting \cup unnoted \cup Unreached
    /\ display.scroll = "Redraw" /\ display.bpp # 15 => stale \subseteq waiting \cup Unreached
    /\ display.scroll = "Redraw" /\ display.bpp # 15 /\ ~Turned => stale \subseteq waiting
    /\ ~rga.mRgaActive => stale \subseteq waiting
=============================================================================
