----------------------------- MODULE GlyphDraw ------------------------------
(***************************************************************************)
(* Text on a turned screen (src/src/screen.cpp): drawText splits a run of  *)
(* characters into blanks, filled at once, and glyphs; drawGlyph clips a   *)
(* glyph at the screen's edges and turns it.  The bitmap was stored turned *)
(* already (buildGlyphBitmap, src/src/font.cpp), so clipping must skip the *)
(* pixels that the rotation has brought to the front.                      *)
(***************************************************************************)
EXTENDS Integers, Sequences

CONSTANTS ScreenW, ScreenH,   \* the screen as its user sees it
          CellW, CellH,      \* FW(1) and FH(1)
          Glyphs,            \* [left, top, width, height] tried
          MaxRun             \* bound: characters of a run

ASSUME GlyphAssumption ==
    /\ ScreenW \in Nat /\ ScreenH \in Nat /\ CellW \in Nat /\ CellH \in Nat /\ MaxRun \in Nat
    /\ Glyphs \subseteq [left : Int, top : Int, width : Nat, height : Nat]

VARIABLE drawing   \* what is being drawn, and the pixels or cells it got

Rotations == {0, 90, 180, 270}

-----------------------------------------------------------------------------
\* rotatePoint within an upright w x h area.
rotatePoint(rot, w, h, p) ==
    CASE rot = 0   -> p
      [] rot = 90  -> [x |-> h - p.y - 1, y |-> p.x]
      [] rot = 180 -> [x |-> w - p.x - 1, y |-> h - p.y - 1]
      [] rot = 270 -> [x |-> p.y, y |-> w - p.x - 1]

\* rotateRect on the whole screen.
rotateRect(rot, r) ==
    CASE rot = 0   -> r
      [] rot = 90  -> [x |-> ScreenH - r.y - r.h, y |-> r.x, w |-> r.h, h |-> r.w]
      [] rot = 180 -> [x |-> ScreenW - r.x - r.w, y |-> ScreenH - r.y - r.h, w |-> r.w, h |-> r.h]
      [] rot = 270 -> [x |-> r.y, y |-> ScreenW - r.x - r.w, w |-> r.h, h |-> r.w]

\* buildGlyphBitmap: the stored bitmap, a row after the other; entry k holds
\* the upright glyph's pixel pixmap[k].
Pitch(rot, g) == IF rot \in {0, 180} THEN g.width ELSE g.height
pixmap(rot, g) ==
    LET points == (0 .. g.width - 1) \X (0 .. g.height - 1)
        at(p)  == LET n == rotatePoint(rot, g.width, g.height, [x |-> p[1], y |-> p[2]])
                  IN  n.y * Pitch(rot, g) + n.x
    IN  [k \in 0 .. g.width * g.height - 1 |-> CHOOSE p \in points : at(p) = k]

Min2(a, b) == IF a < b THEN a ELSE b
Positive(n) == IF n < 0 THEN 0 ELSE n

\* The memory of the display, position to what was written there.
Written(pixels, at, value) ==
    [p \in DOMAIN pixels \cup at |-> IF p \in at THEN value[p] ELSE pixels[p]]

Points(r) == {<<x, y>> : x \in r.x .. r.x + r.w - 1, y \in r.y .. r.y + r.h - 1}

fillRectPixel(rot, pixels, x, y, w, h) ==
    LET r  == [x |-> x, y |-> y, w |-> Min2(w, ScreenW - x), h |-> Min2(h, ScreenH - y)]
        at == Points(rotateRect(rot, r))
    IN  IF x >= ScreenW \/ y >= ScreenH \/ w <= 0 \/ h <= 0 THEN pixels
        ELSE Written(pixels, at, [p \in at |-> <<"bg">>])

\* mutant: a glyph turned by 180 degrees is clipped at its other end
FirstPixel_Upright(rot, g, skip, wdiff, hdiff) ==
    CASE rot = 270 -> wdiff * Pitch(rot, g)
      [] rot = 90  -> hdiff
      [] OTHER     -> skip

\* A Powerline symbol that begins left of its cell is cut off at its edge.
LeftSkip(code, g) == IF code = "powerline" /\ g.left < 0 THEN -g.left ELSE 0

\* The first stored pixel to draw when skip columns are cut off at the left,
\* hdiff rows at the bottom and wdiff columns in all; those at the left are
\* passed over on an upright screen alone.
FirstPixel(rot, g, skip, wdiff, hdiff) ==
    CASE rot = 0   -> skip
      [] rot = 90  -> hdiff
      [] rot = 180 -> wdiff + hdiff * Pitch(rot, g)
      [] rot = 270 -> wdiff * Pitch(rot, g)

\* drawGlyph: clipped to its cell, the background around it, then the glyph.
drawGlyph(rot, code, g, x, y, wide) ==
    LET skip   == LeftSkip(code, g)
        w      == Min2(IF wide THEN 2 * CellW ELSE CellW, ScreenW - x)
        h      == Min2(CellH, ScreenH - y)
        top    == Positive(g.top)
        left   == IF skip > 0 THEN 0 ELSE IF x + g.left < 0 THEN -x ELSE g.left
        width  == Positive(Min2(Min2(g.width - skip, w - left), ScreenW - (x + left)))
        height == Positive(Min2(Min2(g.height, h - top), ScreenH - (y + top)))
        above  == fillRectPixel(rot, [p \in {} |-> p], x, y, w, top)
        before == IF left > 0 THEN fillRectPixel(rot, above, x, y + top, left, height) ELSE above
        behind == fillRectPixel(rot, before, x + (width + left), y + top,
                                w - (width + left), height)
        below  == fillRectPixel(rot, behind, x, y + top + height, w, h - (top + height))
        r      == rotateRect(rot, [x |-> x + left, y |-> y + top, w |-> width, h |-> height])
        first  == FirstPixel(rot, g, skip, g.width - width, g.height - height)
        bits   == pixmap(rot, g)
        stored == [p \in Points(r) |->
                      bits[first + (p[2] - r.y) * Pitch(rot, g) + (p[1] - r.x)]]
    IN  IF x + left >= ScreenW \/ y + top >= ScreenH \/ width = 0 \/ height = 0 THEN below
        ELSE Written(below, Points(r), stored)

-----------------------------------------------------------------------------
\* Characters of a run: a blank, a narrow and a wide character, and an icon of
\* the private use area whose glyph is wider than its cell.
Kinds == {"space", "narrow", "wide", "icon"}
Cells(c) == IF c = "wide" THEN 2 ELSE 1
Column(run, i) ==
    LET after[k \in 0 .. Len(run)] == IF k = 0 THEN 0 ELSE after[k - 1] + Cells(run[k])
    IN  after[i - 1]

\* drawGlyphs: characters one after the other; only the last may overflow.
drawGlyphs(run, from, upto, startx) ==
    [k \in 1 .. upto - from |->
        [cell |-> startx + Column(SubSeq(run, from, upto - 1), k), kind |-> run[from + k - 1],
         overflows |-> k = upto - from /\ run[from + k - 1] = "icon"]]

Blanks(a, b) == [k \in 1 .. b - a |-> [cell |-> a + k - 1, kind |-> "space", overflows |-> FALSE]]

\* A blank ends a row of glyphs: an overflowing icon comes on top of it.
SpaceAfterText(t, run, i, x) ==
    LET glyphs == drawGlyphs(run, t.start, i, t.startx)
    IN  IF run[i - 1] = "icon"
        THEN [t EXCEPT !.out = @ \o Blanks(x, x + 1) \o glyphs, !.text = FALSE]
        ELSE [t EXCEPT !.out = @ \o glyphs, !.text = FALSE, !.space = TRUE, !.startx = x]

\* drawText: one character, at column t.x.
TextStep(t, run, i) ==
    LET x == t.x
        blank == IF t.text THEN SpaceAfterText(t, run, i, x)
                 ELSE IF t.space THEN t ELSE [t EXCEPT !.space = TRUE, !.startx = x]
        filled == IF t.space THEN [t EXCEPT !.space = FALSE, !.out = @ \o Blanks(t.startx, x)]
                  ELSE t
        glyph == IF t.text THEN filled
                 ELSE [filled EXCEPT !.text = TRUE, !.start = i, !.startx = x]
        next  == IF run[i] = "space" THEN blank ELSE glyph
    IN  [next EXCEPT !.x = x + Cells(run[i])]

drawText(run) ==
    LET start == [x |-> 0, text |-> FALSE, space |-> FALSE, startx |-> 0, start |-> 0, out |-> <<>>]
        after[i \in 0 .. Len(run)] == IF i = 0 THEN start ELSE TextStep(after[i - 1], run, i)
        t == after[Len(run)]
    IN  IF t.text THEN t.out \o drawGlyphs(run, t.start, Len(run) + 1, t.startx)
        ELSE IF t.space THEN t.out \o Blanks(t.startx, t.x) ELSE t.out

-----------------------------------------------------------------------------
NoText == [run |-> <<>>, out |-> <<>>]

GlyphCases ==
    {[rot |-> rot, code |-> code, g |-> g, x |-> x, y |-> y, wide |-> wide] :
        rot \in Rotations, code \in {"powerline", "other"}, g \in Glyphs, x \in 0 .. ScreenW - 1,
        y \in 0 .. ScreenH - 1, wide \in BOOLEAN}

DrawInit == drawing = [text |-> NoText]

TypeText ==
    \E c \in Kinds :
        LET run == Append(drawing.text.run, c)
        IN  /\ DOMAIN drawing = {"text"}
            /\ Len(run) <= MaxRun
            /\ drawing' = [text |-> [run |-> run, out |-> drawText(run)]]

PlaceGlyph ==
    \E c \in GlyphCases :
        /\ drawing = [text |-> NoText]
        /\ drawing' = [case |-> c, pixels |-> drawGlyph(c.rot, c.code, c.g, c.x, c.y, c.wide)]

DrawNext == TypeText \/ PlaceGlyph
DrawSpec == DrawInit /\ [][DrawNext]_drawing

-----------------------------------------------------------------------------
\* The glyph stands upright for the user, whatever way the screen is turned and
\* wherever it is cut off: each pixel of the cell holds the glyph's pixel at
\* that place, or the background (drawGlyph).  Excused are glyphs the code
\* moves: those that would begin left of the screen or above their cell, and
\* on a turned screen the Powerline symbols that begin left of their cell.
GlyphIsUpright ==
    DOMAIN drawing = {"case", "pixels"} =>
        LET c == drawing.case
            cell == {p \in (0 .. ScreenW - 1) \X (0 .. ScreenH - 1) :
                        /\ c.x <= p[1] /\ p[1] < c.x + (IF c.wide THEN 2 * CellW ELSE CellW)
                        /\ c.y <= p[2] /\ p[2] < c.y + CellH}
            seen(p) == LET q == rotatePoint(c.rot, ScreenW, ScreenH, [x |-> p[1], y |-> p[2]])
                       IN  drawing.pixels[<<q.x, q.y>>]
            meant(p) == LET gx == p[1] - c.x - c.g.left
                            gy == p[2] - c.y - c.g.top
                        IN  IF gx \in 0 .. c.g.width - 1 /\ gy \in 0 .. c.g.height - 1
                            THEN <<gx, gy>> ELSE <<"bg">>
            moved == \/ c.g.top < 0
                     \/ IF LeftSkip(c.code, c.g) > 0 THEN c.rot # 0 ELSE c.x + c.g.left < 0
        IN  ~moved => \A p \in cell : seen(p) = meant(p)

\* A run is drawn whole: what ends up in each column is the character that
\* belongs there, and a blank behind an icon is below the icon's overflow.
TextRunsWhole ==
    DOMAIN drawing = {"text"} =>
        LET run == drawing.text.run
            out == drawing.text.out
            covers(k, cell) == \/ out[k].cell <= cell /\ cell < out[k].cell + Cells(out[k].kind)
                               \/ out[k].overflows /\ cell = out[k].cell + 1
            last(cell) == CHOOSE k \in DOMAIN out :
                              covers(k, cell) /\ \A j \in DOMAIN out : covers(j, cell) => j <= k
        IN  \A i \in DOMAIN run :
                LET cell == Column(run, i)
                    under == i > 1 /\ run[i] = "space" /\ run[i - 1] = "icon"
                IN  /\ \E k \in DOMAIN out : covers(k, cell)
                    /\ IF under THEN out[last(cell)].overflows
                       ELSE out[last(cell)].cell = cell /\ out[last(cell)].kind = run[i]
=============================================================================
