----------------------------- MODULE TermAttrs -----------------------------
(***************************************************************************)
(* Character attributes and direct (24 bit) colours of a VTerm: the SGR    *)
(* items of src/src/lib/vterm_action.cpp, the table of direct colours and  *)
(* the attributes of written and erased cells (src/src/lib/vterm.cpp), and *)
(* the colours FbShell draws (src/src/fbshell.cpp).  A colour is an index  *)
(* into the palette or, direct, into the table.  `asked' remembers, beside *)
(* every colour, the 24 bit value a program asked for and the round of the *)
(* table it was given an index in.                                         *)
(***************************************************************************)
EXTENDS Integers, Sequences, FiniteSets, TermParams

CONSTANTS
  NR_DIRECT_COLORS,  \* length of the table
  Rgb,               \* 24 bit values
  DefaultFg,         \* color-foreground as #RRGGBB: at most one of Rgb
  DefaultBg,         \* color-background likewise
  SgrSequences,      \* parameter lists of CSI m
  CellNames,         \* cells that get written
  MaxRequests        \* bound: requests of the programs

u8(n) == n % 256

\* Rgb holds the colours that the sequences can ask for.
ASSUME AttrAssumption ==
  /\ NR_DIRECT_COLORS \in 3 .. 256
  /\ DefaultFg \subseteq Rgb /\ Cardinality(DefaultFg) <= 1
  /\ DefaultBg \subseteq Rgb /\ Cardinality(DefaultBg) <= 1
  /\ Rgb # {} /\ SgrSequences \subseteq Seq(Nat)
  /\ \A s \in SgrSequences : \A i \in 1 .. Len(s) - 3 :
       s[i] = 2 => <<u8(s[i + 1]), u8(s[i + 2]), u8(s[i + 3])>> \in Rgb
  /\ MaxRequests \in Nat

VARIABLES
  direct,   \* mDirectColors, mDirectColorCount, and the round
  pen,      \* char_attr, s_char_attr, cur_fcolor ..., cur_halfbright_color
  cells,    \* attributes stored with the characters
  requests  \* requests so far

attrVars == <<direct, pen, cells, requests>>

One(s) == CHOOSE x \in s : TRUE
Entries == 0 .. NR_DIRECT_COLORS - 1
Palette(i) == [index |-> i, direct |-> FALSE, asked |-> {}, round |-> 0]
Direct(d, rgb) ==
  [index |-> d.found, direct |-> TRUE, asked |-> {rgb}, round |-> d.round]

-----------------------------------------------------------------------------
(* allocDirectColor: an entry that holds the colour, else the next one,    *)
(* else start over behind the entries reserved for the default colours.    *)

Holding(d, rgb) == {i \in 0 .. d.count - 1 : d.table[i] = rgb}

Appended(d, rgb) ==
  [d EXCEPT !.table[d.count] = rgb, !.count = @ + 1, !.found = d.count]

\* mutant: nothing is reserved when the table starts over
StartOver_Unreserved(d) == [d EXCEPT !.count = 0, !.round = @ + 1]

StartOver(d) ==
  LET empty == [d EXCEPT !.count = 0, !.round = @ + 1]
      withFg == IF DefaultFg = {} THEN empty ELSE Appended(empty, One(DefaultFg))
  IN  IF DefaultBg = {} THEN withFg ELSE Appended(withFg, One(DefaultBg))

allocDirectColor(d, rgb) ==
  IF Holding(d, rgb) # {}
  THEN [d EXCEPT !.found = CHOOSE i \in Holding(d, rgb) :
                             \A j \in Holding(d, rgb) : i <= j]
  ELSE Appended(IF d.count < NR_DIRECT_COLORS THEN d ELSE StartOver(d), rgb)

\* The constructor's table, and the default attributes made of it.
NoColours == [table |-> [i \in Entries |-> CHOOSE rgb \in Rgb : TRUE],
              count |-> 0, round |-> 0, found |-> 0]

init_default_color ==
  LET d1 == IF DefaultFg = {} THEN NoColours
            ELSE allocDirectColor(NoColours, One(DefaultFg))
      d2 == IF DefaultBg = {} THEN d1 ELSE allocDirectColor(d1, One(DefaultBg))
  IN  [direct |-> d2,
       fg |-> IF DefaultFg = {} THEN Palette(7) ELSE Direct(d1, One(DefaultFg)),
       bg |-> IF DefaultBg = {} THEN Palette(0) ELSE Direct(d2, One(DefaultBg))]

default_char_attr ==
  [fg |-> init_default_color.fg, bg |-> init_default_color.bg,
   intensity |-> 1, flags |-> {}]

-----------------------------------------------------------------------------
(* set_display_attr, one item of the parameter list after another.         *)

Switch(n) == CASE n = 3 -> "italic" [] n = 4 -> "underline" [] n = 5 -> "blink"
               [] n = 7 -> "reverse" [] n = 9 -> "strikethrough"

\* 38 and 48 with an index, of which a cell keeps eight bits.
Extended(s, item, ground) ==
  IF Len(item) = 3
  THEN [s EXCEPT !.pen.attr[ground] = Palette(u8(item[3]))]
  ELSE IF Len(item) = 5
  THEN LET rgb == <<u8(item[3]), u8(item[4]), u8(item[5])>>
           d   == allocDirectColor(s.direct, rgb)
       IN  [s EXCEPT !.direct = d, !.pen.attr[ground] = Direct(d, rgb)]
  ELSE s

SgrItem(s, item) ==
  LET n == item[1] IN
  CASE n = 0 -> [s EXCEPT !.pen.attr = default_char_attr]
    [] n = 1 -> [s EXCEPT !.pen.attr.intensity = 2]
    [] n = 2 -> [s EXCEPT !.pen.attr.intensity = 0]
    [] n \in {21, 22} -> [s EXCEPT !.pen.attr.intensity = 1]
    [] n \in {3, 4, 5, 7, 9} -> [s EXCEPT !.pen.attr.flags = @ \cup {Switch(n)}]
    [] n \in {23, 24, 25, 27, 29} ->
         [s EXCEPT !.pen.attr.flags = @ \ {Switch(n - 20)}]
    [] n \in 30 .. 37 -> [s EXCEPT !.pen.attr.fg = Palette(n % 10)]
    [] n \in 40 .. 47 -> [s EXCEPT !.pen.attr.bg = Palette(n % 10)]
    [] n = 38 -> Extended(s, item, "fg")
    [] n = 48 -> Extended(s, item, "bg")
    [] n = 39 -> [s EXCEPT !.pen.attr.fg = s.pen.cur.fg]
    [] n = 49 -> [s EXCEPT !.pen.attr.bg = s.pen.cur.bg]
    [] OTHER -> s

State == [direct |-> direct, pen |-> pen]
Becomes(s) == direct' = s.direct /\ pen' = s.pen /\ UNCHANGED cells

set_display_attr(params) ==
  LET p == [i \in 0 .. Len(params) - 1 |-> params[i + 1]]
      items == SgrItems(p, Len(params) - 1)
      after[i \in 0 .. Len(items)] ==
        IF i = 0 THEN State ELSE SgrItem(after[i - 1], items[i])
  IN  Becomes(after[Len(items)])

-----------------------------------------------------------------------------
Fresh == [attr |-> default_char_attr, saved |-> default_char_attr,
          cur |-> [fg |-> default_char_attr.fg, bg |-> default_char_attr.bg],
          halfbright |-> {}]

AttrInit ==
  /\ direct = init_default_color.direct
  /\ pen = Fresh
  /\ cells = [c \in CellNames |-> default_char_attr]
  /\ requests = 0

\* normal_char_attr: half brightness may stand for a palette colour.
normal_char_attr ==
  IF pen.attr.intensity = 0 /\ pen.halfbright # {}
  THEN [pen.attr EXCEPT !.intensity = 1, !.fg = Palette(One(pen.halfbright))]
  ELSE pen.attr

erase_char_attr == [pen.attr EXCEPT !.intensity = 1, !.flags = {}]

Store(c, a) == cells' = [cells EXCEPT ![c] = a] /\ UNCHANGED <<direct, pen>>
WriteChar(c) == Store(c, normal_char_attr)
EraseCell(c) == Store(c, erase_char_attr)

save_cursor == Becomes([State EXCEPT !.pen.saved = pen.attr])
restore_cursor == Becomes([State EXCEPT !.pen.attr = pen.saved])

\* CSI 2;n ] and CSI 8 ]: the half bright colour, the colours 39 and 49 give.
linux_specific_halfbright(n) ==
  Becomes([State EXCEPT !.pen.halfbright = IF n < 8 THEN {n} ELSE @])
linux_specific_defaults ==
  Becomes([State EXCEPT !.pen.cur = [fg |-> pen.attr.fg, bg |-> pen.attr.bg]])

\* CSI 1;n } and CSI 2;n }: a palette colour from the 256.
fbterm_specific(ground, n) ==
  Becomes([State EXCEPT !.pen.attr[ground] = Palette(u8(n))])

\* reset clears the screen with the default attributes and keeps the table.
reset_attrs ==
  /\ pen' = Fresh
  /\ cells' = [c \in CellNames |-> [default_char_attr EXCEPT !.intensity = 1]]
  /\ UNCHANGED direct

AttrRequest ==
  \/ \E params \in SgrSequences : set_display_attr(params)
  \/ \E c \in CellNames : WriteChar(c) \/ EraseCell(c)
  \/ save_cursor \/ restore_cursor \/ reset_attrs
  \/ \E n \in {4, 9} : linux_specific_halfbright(n)
  \/ linux_specific_defaults
  \/ \E ground \in {"fg", "bg"} : fbterm_specific(ground, 260)

AttrNext ==
  /\ requests < MaxRequests
  /\ requests' = requests + 1
  /\ AttrRequest

AttrSpec == AttrInit /\ [][AttrNext]_attrVars

-----------------------------------------------------------------------------
(* What FbShell draws: adjustCharAttr, and the block cursor, which is the  *)
(* cell with its colours exchanged, adjusted a second time by drawChars.   *)

Bright(colour, on) ==
  IF on /\ ~colour.direct /\ colour.index < 8 THEN [colour EXCEPT !.index = @ + 8]
  ELSE colour

\* Reversed backgrounds lose their brightness, index 8 excepted.
Dimmed(colour) ==
  IF ~colour.direct /\ colour.index \in 9 .. 15 THEN [colour EXCEPT !.index = @ - 8]
  ELSE colour

adjustCharAttr(a) ==
  LET half == IF a.intensity = 0 /\ ~a.fg.direct THEN Palette(8) ELSE a.fg
      fg == Bright(half, a.intensity = 2)
      bg == Bright(a.bg, "blink" \in a.flags)
  IN  IF "reverse" \in a.flags
      THEN [a EXCEPT !.fg = bg, !.bg = Dimmed(fg)]
      ELSE [a EXCEPT !.fg = fg, !.bg = bg]

Exchanged(a) == [a EXCEPT !.fg = a.bg, !.bg = a.fg]

BlockCursor(a, showed) ==
  LET cursorAttr == adjustCharAttr(a)
  IN  adjustCharAttr(IF showed THEN Exchanged(cursorAttr) ELSE cursorAttr)

-----------------------------------------------------------------------------
Colours == [index : 0 .. 255, direct : BOOLEAN, asked : SUBSET Rgb, round : Nat]
CharAttr ==
  [fg : Colours, bg : Colours, intensity : 0 .. 2,
   flags : SUBSET {"italic", "underline", "blink", "reverse", "strikethrough"}]

\* Indices fit eight bits and direct ones lie within the table.
AttrTypeOK ==
  /\ direct.count \in 0 .. NR_DIRECT_COLORS
  /\ direct.table \in [Entries -> Rgb]
  /\ \A a \in {cells[c] : c \in CellNames} \cup {pen.attr, pen.saved} :
       \A colour \in {a.fg, a.bg} :
         colour.index \in IF colour.direct THEN Entries ELSE 0 .. 255

\* allocDirectColor, vterm.cpp 1072: "preserving reserved default direct
\* colors".  The entries of the default colours hold them for ever, whatever
\* colours programs ask for, so what is written in them never changes.
DefaultColoursKept ==
  \A colour \in {default_char_attr.fg, default_char_attr.bg} :
    colour.direct => direct.table[colour.index] \in colour.asked

\* A cell shows the 24 bit colour its program asked for until the table starts
\* over: no entry is given to a second colour within a round.
TrueColoursKept ==
  \A c \in CellNames : \A colour \in {cells[c].fg, cells[c].bg} :
    (colour.direct /\ colour.round = direct.round) =>
      direct.table[colour.index] \in colour.asked

\* Hiding the flashing cursor brings back what expose draws of the cell under
\* it, in every attribute but reversed video.
CursorGivesCellBack ==
  \A c \in CellNames : "reverse" \notin cells[c].flags =>
    BlockCursor(cells[c], FALSE) = adjustCharAttr(cells[c])
=============================================================================
