---------------------------- MODULE SixelCanvas ----------------------------
(***************************************************************************)
(* Decoding of a sixel image (src/src/lib/vterm_sixel.cpp): the drawing    *)
(* commands on a canvas of the terminal's size in pixels, the image's      *)
(* bounds, the colour registers, and the cut into one pixmap per cell.     *)
(* The rows the cells belong to are VTermLines' business.                  *)
(***************************************************************************)
EXTENDS Integers, FiniteSets, FiniteSetsExt

CONSTANTS
  Cols, Rows,        \* size of the terminal in cells
  CellW, CellH,      \* mCellW, mCellH: size of a cell in pixels
  Registers,         \* colour registers an image uses, 0 among them
  SixelBits,         \* patterns of six pixels, as sets of rows
  SixelWidths,       \* widths a raster attribute declares
  Counts,            \* repeat counts
  MaxCommands        \* bound: commands of one image

MaxRepeat == 65535   \* the largest repeat count

PixW == Cols * CellW
PixH == Rows * CellH

\* A declared width is cut to MaxRepeat as well; the canvas may be narrower.
\* No screen is wider than that.
ASSUME SixelAssumption ==
  /\ Cols \in Nat \ {0} /\ Rows \in Nat \ {0}
  /\ CellW \in Nat \ {0} /\ CellH \in Nat \ {0}
  /\ 0 \in Registers /\ Registers \subseteq 0 .. 255
  /\ SixelBits \subseteq SUBSET (0 .. 5)
  /\ SixelWidths \subseteq 1 .. MaxRepeat
  /\ PixW <= MaxRepeat
  /\ Counts \subseteq Nat /\ MaxCommands \in Nat \ {0}

VARIABLES
  canvas,    \* mSixelCanvas: {} before the first image, or one record
  commands,  \* commands of the current image so far
  pixmaps,   \* what the last image left in the cells
  image      \* the last image as a drawing: its width, its inked pixels, and
             \* how far ink strayed from them

sixelVars == <<canvas, commands, pixmaps, image>>

Pixels == (0 .. PixW - 1) \X (0 .. PixH - 1)
Cells == (0 .. Cols - 1) \X (0 .. Rows - 1)
Clear == [drawn |-> FALSE, colour |-> <<"none">>]
Ink(colour) == [drawn |-> TRUE, colour |-> colour]
NoImage == [width |-> PixW, pixels |-> {}, strayed |-> "no"]
Canvas == CHOOSE sc \in canvas : TRUE

\* Values of a register: the built-in palettes', or a definition's.
Preset(i) == <<"preset", i>>

\* reset_sixel.  A canvas whose size is not the terminal's is allocated anew,
\* so that the whole memory is cleared either way.
\* mutant: the canvas keeps the size the last image declared
reset_sixel_KeepSize(old) ==
  [pixmap |-> [p \in Pixels |-> Clear],
   width |-> IF old = {} THEN PixW ELSE (CHOOSE sc \in old : TRUE).width,
   height |-> PixH, point_x |-> 0, point_y |-> 0,
   img_width |-> 1, img_height |-> 6, color_index |-> 0,
   color_table |-> [i \in Registers |-> Preset(i)]]

reset_sixel(old) ==
  [pixmap |-> [p \in Pixels |-> Clear], width |-> PixW, height |-> PixH,
   point_x |-> 0, point_y |-> 0, img_width |-> 1, img_height |-> 6,
   color_index |-> 0, color_table |-> [i \in Registers |-> Preset(i)]]

InCanvas(sc) == sc.point_x < sc.width /\ sc.point_y + 5 < sc.height

\* The pixel of the memory at point_x * 4 + point_y * line_length: the raster
\* attribute replaces the canvas' width and not its memory, so that a column
\* beyond a line lies in a later one, or behind the last.
Address(at) == <<at[1] % PixW, at[2] + at[1] \div PixW>>

sixel_bitmap(sc, bits) ==
  IF ~InCanvas(sc) THEN sc
  ELSE LET Band == {Address(<<sc.point_x, sc.point_y + b>>) : b \in bits}
           ink  == Ink(sc.color_table[sc.color_index])
       IN  [sc EXCEPT !.pixmap = [p \in Pixels |->
                                    IF p \in Band THEN ink ELSE @[p]],
                      !.point_x = @ + 1,
                      !.img_width = IF sc.point_x + 1 > @ THEN sc.point_x + 1 ELSE @]

sixel_repeat(sc, count, bits) ==
  LET n == IF count = 0 THEN 1 ELSE IF count > MaxRepeat THEN MaxRepeat ELSE count
      after[i \in 0 .. n] ==
        IF i = 0 THEN sc ELSE sixel_bitmap(after[i - 1], bits)
  IN  after[n]

sixel_cr(sc) == [sc EXCEPT !.point_x = 0]

sixel_nl(sc) ==
  LET y == sc.point_y + 6
      grown == IF y + 6 > sc.height THEN sc.height ELSE y + 6
  IN  [sc EXCEPT !.point_x = 0, !.point_y = y,
                 !.img_height = IF y + 5 > @ /\ grown > 0 THEN grown ELSE @]

sixel_attr(sc, width) == [sc EXCEPT !.width = width]

\* sixel_color: one parameter selects a register, five define and select it.
sixel_color_select(sc, i) == [sc EXCEPT !.color_index = i]
sixel_color_define(sc, i, colour) ==
  [sc EXCEPT !.color_index = i, !.color_table[i] = colour]

-----------------------------------------------------------------------------
(* sixel_copy_to_cells *)

Covering(size, cell) == (size + cell - 1) \div cell

CopiedCells(sc) ==
  {c \in Cells : c[1] < Covering(sc.img_width, CellW)
              /\ c[2] < Covering(sc.img_height, CellH)}

CellPixmap(sc, c) ==
  [p \in (0 .. CellW - 1) \X (0 .. CellH - 1) |->
     LET x == c[1] * CellW + p[1]
         y == c[2] * CellH + p[2]
     IN  IF x < sc.width /\ y < sc.height THEN sc.pixmap[<<x, y>>] ELSE Clear]

\* Cells the image does not reach keep what they have; here they are new.
sixel_copy_to_cells(sc) == [c \in CopiedCells(sc) |-> CellPixmap(sc, c)]

-----------------------------------------------------------------------------
SixelInit ==
  /\ canvas = {} /\ commands = 0
  /\ pixmaps = << >> /\ image = NoImage

Drawing == commands > 0

\* Bands that lie on the canvas as a whole are drawn, others are not.
OnCanvas(at) == at[2] - (at[2] % 6) + 5 < PixH

\* Ink a drawing puts beyond the lines of the memory, or beyond their last.
Strays(drawn) ==
  LET seen == {d \in drawn : OnCanvas(d.at)}
  IN  IF \E d \in seen : Address(d.at) \notin Pixels THEN "memory"
      ELSE IF \E d \in seen : d.at[1] >= PixW THEN "rows" ELSE "no"

Farther(a, b) ==
  IF "memory" \in {a, b} THEN "memory" ELSE IF "rows" \in {a, b} THEN "rows" ELSE "no"

\* DCS q: sixel_parse_header prepares the canvas; what was written behind it
\* stays written ...
BeginImage ==
  /\ ~Drawing
  /\ canvas' = {reset_sixel(canvas)}
  /\ commands' = 1
  /\ pixmaps' = << >>
  /\ image' = [NoImage EXCEPT !.strayed = IF image.strayed = "memory" THEN "memory" ELSE "no"]

\* ... sixel_parse_data draws; the drawing itself is the set of the pixels put
\* in order within the width declared, a later one covering an earlier one ...
Command(sc, drawn) ==
  /\ Drawing /\ commands < MaxCommands
  /\ canvas' = {sc}
  /\ commands' = commands + 1
  /\ image' = [image EXCEPT !.pixels = {px \in @ : \A d \in drawn : d.at # px.at} \cup drawn,
                            !.strayed = Farther(@, Strays(drawn))]
  /\ UNCHANGED pixmaps

Put(bits, n) ==
  LET sc == Canvas IN
  {[at |-> <<sc.point_x + i, sc.point_y + b>>,
    ink |-> Ink(sc.color_table[sc.color_index])] :
      i \in {j \in 0 .. n - 1 : sc.point_x + j < image.width}, b \in bits}

DrawSixel(bits) == Command(sixel_bitmap(Canvas, bits), Put(bits, 1))
RepeatSixel(count, bits) ==
  Command(sixel_repeat(Canvas, count, bits),
          Put(bits, IF count = 0 THEN 1 ELSE count))
CarriageReturn == Command(sixel_cr(Canvas), {})
NewLine == Command(sixel_nl(Canvas), {})
RasterAttribute(width) ==
  /\ Drawing /\ commands < MaxCommands
  /\ canvas' = {sixel_attr(Canvas, width)}
  /\ commands' = commands + 1
  /\ image' = [image EXCEPT !.width = width]
  /\ UNCHANGED pixmaps
SelectColour(i) == Command(sixel_color_select(Canvas, i), {})
DefineColour(i) == Command(sixel_color_define(Canvas, i, <<"defined", i>>), {})

\* ... and the canvas is cut into cells.
EndImage ==
  /\ Drawing
  /\ pixmaps' = sixel_copy_to_cells(Canvas)
  /\ commands' = 0
  /\ UNCHANGED <<canvas, image>>

SixelNext ==
  \/ BeginImage \/ EndImage
  \/ Drawing /\ \/ CarriageReturn \/ NewLine
                \/ \E bits \in SixelBits :
                     DrawSixel(bits) \/ \E n \in Counts : RepeatSixel(n, bits)
                \/ \E width \in SixelWidths : RasterAttribute(width)
                \/ \E i \in Registers : SelectColour(i) \/ DefineColour(i)

SixelSpec == SixelInit /\ [][SixelNext]_sixelVars

-----------------------------------------------------------------------------
\* The bounds of the image are within the widest that can be declared.
SixelTypeOK ==
  /\ canvas # {} =>
       /\ Canvas.img_width \in 1 .. MaxRepeat
       /\ Canvas.point_x \in 0 .. MaxRepeat /\ Canvas.point_y % 6 = 0
       /\ Canvas.color_index \in Registers
       /\ DOMAIN Canvas.pixmap = Pixels
  /\ commands \in 0 .. MaxCommands
  /\ image.strayed \in {"no", "rows", "memory"}

\* The cells show the image as it was drawn: every pixel within the declared
\* width whose band lies on the canvas is in the pixmap of the cell it falls
\* on, in the colour of its register at that time, and no other pixel is.
\* Nothing of an earlier image, of its size or its colours shows through.
\* Excused is an image that declared a width the canvas has not and drew
\* there, and everything after one that wrote behind the memory (sixel_attr,
\* sixel_bitmap).
CellsShowImage ==
  (~Drawing /\ canvas # {} /\ image.strayed = "no") =>
    LET Expected == {px \in image.pixels : px.at[1] < image.width /\ OnCanvas(px.at)}
        Shown == UNION {{[at |-> <<c[1] * CellW + p[1], c[2] * CellH + p[2]>>,
                          ink |-> pixmaps[c][p]] :
                          p \in {q \in DOMAIN pixmaps[c] : pixmaps[c][q].drawn}} :
                        c \in DOMAIN pixmaps}
    IN  Shown = Expected
=============================================================================
