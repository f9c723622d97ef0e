----------------------------- MODULE ScreenPan ------------------------------
(***************************************************************************)
(* Scrolling by panning (src/src/screen.cpp): instead of copying pixels,   *)
(* Screen::move shifts the display start within a video memory that is     *)
(* larger than the screen, redraws the rows that should not have moved and *)
(* erases the margins that came into view.  The unit along the direction   *)
(* of scrolling is a pixel line; a line has the pixels of the text columns *)
(* and those right of the last column.  update and historyDisplay of       *)
(* VTerm (src/src/lib/vterm.cpp) always move full rows.                    *)
(***************************************************************************)
EXTENDS Integers, FiniteSets

CONSTANTS mRows,        \* rows of text
          FontHeight,   \* pixel lines of a row
          mHeight,      \* pixel lines of the screen
          Virtual,      \* pixel lines of the video memory, for the devices tried
          Steps,        \* ypanstep and ywrapstep of the frame buffers tried
          Texts         \* what a row can show

VARIABLES scr,   \* the Screen object and the video memory
          win    \* rows of the active window; whether the console is ours

panVars == <<scr, win>>

\* The rows fit the screen, and the screen fits the video memory.
ASSUME ScreenAssumption ==
    /\ mRows \in Nat /\ FontHeight \in Nat \ {0} /\ mHeight \in Nat \ {0}
    /\ FontHeight * mRows <= mHeight
    /\ Virtual \subseteq Nat /\ \A v \in Virtual : v >= mHeight
    /\ Steps \subseteq Nat

Rows == 0 .. mRows - 1
PixelLines == 0 .. mHeight - 1
FH(n) == FontHeight * n
Multiple(n, step) == n % step = 0

Redraw == [type |-> "Redraw", max |-> 0, step |-> 1, memory |-> mHeight]

\* FbDev::FbDev: wrapping is preferred to panning; neither when rotated by 90
\* degrees, or when the driver rejects the first FBIOPAN_DISPLAY.
FbScroll(rotate, virtual, ypanstep, ywrapstep, pans) ==
    LET ypan  == virtual > mHeight /\ ypanstep # 0 /\ Multiple(FH(1), ypanstep)
        ywrap == ywrapstep # 0 /\ Multiple(FH(1), ywrapstep)
    IN  IF rotate \in {90, 270} \/ ~pans \/ ~(ypan \/ ywrap) THEN Redraw
        ELSE IF ywrap
        THEN [type |-> "YWrap", max |-> virtual - 1, step |-> ywrapstep, memory |-> virtual]
        ELSE [type |-> "YPan", max |-> virtual - mHeight, step |-> ypanstep,
              memory |-> virtual]

\* VesaDev::initScrollType: any start line, or any start column when rotated.
VesaScroll(rotate, virtual, pans) ==
    IF ~pans \/ virtual <= mHeight THEN Redraw
    ELSE [type |-> IF rotate \in {0, 180} THEN "YPan" ELSE "XPan",
          max |-> virtual - mHeight, step |-> 1, memory |-> virtual]

\* The frame buffers tried take every start line move can come to: the end of
\* the memory is a multiple of the step.  With another memory FBIOPAN_DISPLAY
\* fails when the offset starts over, and setupOffset does not look.
Aligned(d) == Multiple(IF d.type = "YWrap" THEN d.max + 1 ELSE d.max, d.step)

Turns == {0, 90, 180, 270}
Scrolls == UNION {{FbScroll(r, v, sp, sw, ok), VesaScroll(r, v, ok)} :
                     r \in Turns, v \in Virtual, sp \in Steps, sw \in Steps, ok \in BOOLEAN}

Devices ==
    {dev \in [rotate : Turns, scroll : Scrolls] :
        /\ Aligned(dev.scroll)
        /\ dev.scroll.type = "XPan" => dev.rotate \in {90, 270}
        /\ dev.scroll.type \in {"YPan", "YWrap"} => dev.rotate \in {0, 180}}

-----------------------------------------------------------------------------
\* rotateRect, adjustOffset and the wrapping of the drawing loops: where the
\* memory has line p of the screen.  Turned by 90 degrees, y runs down x.
Flipped(s) == s.dev.rotate \in {90, 180}
Place(s, p) ==
    LET q == (IF Flipped(s) THEN mHeight - 1 - p ELSE p) + s.mOffsetCur
    IN  IF s.dev.scroll.type = "YWrap" /\ q > s.dev.scroll.max
        THEN q - (s.dev.scroll.max + 1) ELSE q

\* fillRectPixel over some lines of the screen, in the columns named part; value
\* says what each line gets.
Fill(s, lines, part, value) ==
    LET at       == {Place(s, p) : p \in lines}
        drawn(l) == CHOOSE p \in lines : Place(s, p) = l
    IN  [s EXCEPT !.lines = [l \in DOMAIN @ |->
            IF l \in at THEN [@[l] EXCEPT ![part] = value[drawn(l)]] ELSE @[l]]]

Black == [p \in PixelLines |-> "black"]
LinesOf(rows) == {p \in PixelLines : p \div FontHeight \in rows}
BelowText == FH(mRows) .. mHeight - 1

eraseColumns(s, rows) ==
    Fill(Fill(Fill(s, LinesOf(rows), "margin", Black), BelowText, "text", Black),
         BelowText, "margin", Black)

\* mutant: the margin of the rows that left is erased
eraseMargin_OtherEnd(s, top, h) ==
    eraseColumns(s, IF top THEN mRows - h .. mRows - 1 ELSE 0 .. h - 1)

\* Right of the last column for h rows, and all below the last row.
eraseMargin(s, top, h) ==
    eraseColumns(s, IF top THEN 0 .. h - 1 ELSE mRows - h .. mRows - 1)

\* redraw and expose: some rows of the window.
RowLine(text, p) == <<text, p % FontHeight>>
DrawRows(s, rows, which) ==
    LET line == [p \in LinesOf(which) |-> RowLine(rows[p \div FontHeight], p)]
    IN  Fill(s, LinesOf(which), "text", line)

\* move pays off: fewer rows to redraw than without it.
Accelerates(srow, drow, h) ==
    LET top == IF srow < drow THEN srow ELSE drow
        bot == (IF srow < drow THEN drow ELSE srow) + h
    IN  bot - top - 1 > mRows - h

Shifted(s, srow, drow) ==
    IF Flipped(s) THEN s.mOffsetCur - FH(srow - drow)
    ELSE s.mOffsetCur + FH(srow - drow)

\* Past its end a panned memory starts over at the other end, where nothing is
\* drawn yet; a wrapped one goes on.
Outside(s, offset) == offset < 0 \/ offset > s.dev.scroll.max
NewOffset(s, offset) ==
    LET d == s.dev.scroll
    IN  IF ~Outside(s, offset) THEN offset
        ELSE IF d.type = "YWrap"
        THEN IF offset < 0 THEN offset + (d.max + 1) ELSE offset - (d.max + 1)
        ELSE IF offset < 0 THEN d.max ELSE 0

\* Screen::move, given the window's rows as they are to be shown.
move(s, srow, drow, h, rows) ==
    LET top    == IF srow < drow THEN srow ELSE drow
        bot    == (IF srow < drow THEN drow ELSE srow) + h
        offset == Shifted(s, srow, drow)
        redraw_all == Outside(s, offset) /\ s.dev.scroll.type # "YWrap"
        panned == [s EXCEPT !.mOffsetCur = NewOffset(s, offset)]
        around == DrawRows(panned, rows, Rows \ (top .. bot - 1))
        down   == drow > srow
    IN  IF s.dev.scroll.type = "Redraw" \/ ~Accelerates(srow, drow, h)
        THEN [scr |-> s, moved |-> FALSE]
        ELSE [scr |-> IF redraw_all THEN eraseMargin(around, TRUE, mRows)
                      ELSE eraseMargin(around, down, IF down THEN drow - srow ELSE srow - drow),
              moved |-> ~redraw_all]

\* What is out of sight counts as unknown: nothing may rely on finding it there.
Unknown == [text |-> "foreign", margin |-> "foreign"]
Forget(s) ==
    LET seen == {Place(s, p) : p \in PixelLines}
    IN  [s EXCEPT !.lines = [l \in DOMAIN @ |-> IF l \in seen THEN @[l] ELSE Unknown]]

-----------------------------------------------------------------------------
Blank == CHOOSE t \in Texts : TRUE

PanInit ==
    \E dev \in Devices :
        LET start == [dev |-> dev, mOffsetCur |-> 0,
                      lines |-> [l \in 0 .. dev.scroll.memory - 1 |-> Unknown]]
            rows  == [r \in Rows |-> Blank]
        IN  /\ scr = DrawRows(eraseMargin(start, TRUE, mRows), rows, Rows)
            /\ win = [rows |-> rows, ours |-> TRUE]

\* A row changes and is drawn if its window is on the screen.
WriteRow(r, t) ==
    LET rows == [win.rows EXCEPT ![r] = t]
    IN  /\ t # win.rows[r]
        /\ win' = [win EXCEPT !.rows = rows]
        /\ scr' = IF win.ours THEN DrawRows(scr, rows, {r}) ELSE scr

\* Lines top .. bot scroll by n, up if n > 0, and leave blanks: update with
\* its pending_scroll, or historyDisplay for the whole screen.  While the input
\* method has windows on the screen, enableScroll(false) makes move decline.
ScrollRows(top, bot, n, enabled) ==
    LET from == IF n > 0 THEN top + n ELSE top
        to   == IF n > 0 THEN top ELSE top - n
        h    == bot - top + 1 - (IF n > 0 THEN n ELSE -n)
        kept == to .. to + h - 1
        rows == [r \in Rows |-> IF r \in kept THEN win.rows[r + n]
                                ELSE IF r \in top .. bot THEN Blank ELSE win.rows[r]]
        result == IF enabled THEN move(scr, from, to, h, rows)
                  ELSE [scr |-> scr, moved |-> FALSE]
    IN  /\ h > 0
        /\ win' = [win EXCEPT !.rows = rows]
        /\ scr' = IF win.ours
                  THEN Forget(DrawRows(result.scr, rows,
                           IF result.moved THEN (top .. bot) \ kept ELSE top .. bot))
                  ELSE scr

\* Screen::switchVc(false): the console's new owner draws what it likes.
LeaveScreen ==
    /\ win.ours
    /\ win' = [win EXCEPT !.ours = FALSE]
    /\ scr' = [scr EXCEPT !.mOffsetCur = 0, !.lines = [l \in DOMAIN @ |-> Unknown]]

\* Screen::switchVc(true), then the redraw of the active window.
EnterScreen ==
    /\ ~win.ours
    /\ win' = [win EXCEPT !.ours = TRUE]
    /\ scr' = DrawRows(eraseMargin([scr EXCEPT !.mOffsetCur = 0], TRUE, mRows),
                       win.rows, Rows)

PanNext ==
    \/ LeaveScreen \/ EnterScreen
    \/ \E r \in Rows, t \in Texts : WriteRow(r, t)
    \/ \E top, bot \in Rows, n \in (1 - mRows .. mRows - 1) \ {0},
          enabled \in BOOLEAN : ScrollRows(top, bot, n, enabled)

PanSpec == PanInit /\ [][PanNext]_panVars

-----------------------------------------------------------------------------
Visible(p) == scr.lines[Place(scr, p)]

\* Whatever was scrolled, in parts or past the end of the memory, the display
\* starts inside the memory and shows the rows of the window, each line of
\* each at its place, with black right of and below the text.
WindowIsShown ==
    win.ours =>
        /\ scr.mOffsetCur \in 0 .. scr.dev.scroll.max
        /\ Multiple(scr.mOffsetCur, scr.dev.scroll.step)
        /\ \A p \in PixelLines :
              LET text == IF p < FH(mRows) THEN RowLine(win.rows[p \div FontHeight], p)
                          ELSE "black"
              IN  Visible(p) = [text |-> text, margin |-> "black"]
=============================================================================
