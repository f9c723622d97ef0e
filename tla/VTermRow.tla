------------------------------ MODULE VTermRow ------------------------------
(***************************************************************************)
(* The columns of one row of a VTerm (src/src/lib/vterm.cpp,               *)
(* vterm_action.cpp): narrow and double width characters, the cursor, the  *)
(* edits inside a row, the dirty columns, and what FbShell paints of them  *)
(* (src/src/fbshell.cpp), with the cursor that flashes on a timer.         *)
(*                                                                         *)
(* Leaving the row for another one is coming back to column 0: nothing but *)
(* the cursor tells the two apart here.  A character's attributes are a    *)
(* function of the character; they matter only where a run of cells with   *)
(* equal attributes is painted in one go.                                  *)
(***************************************************************************)
EXTENDS Integers, FiniteSetsExt

CONSTANTS
  W,          \* width, the number of columns
  Narrow,     \* characters of one column
  Wide,       \* characters of two columns
  Space,      \* the narrow character of an erased cell
  Bold,       \* characters whose attributes differ from an erased cell's
  Shapes,     \* cursor shapes a program may select
  MaxOps      \* bound: operations within one input() call

ASSUME RowAssumption ==
  /\ W \in Nat /\ W >= 3
  /\ Space \in Narrow /\ Space \notin Bold
  /\ Narrow \cap Wide = {}
  /\ Shapes \subseteq {"none", "underline", "block"}
  /\ MaxOps \in Nat

VARIABLES
  term,      \* row, cursor and modes of the VTerm
  screen,    \* what the frame buffer shows: per column a glyph and a mark
  mCursor,   \* FbShell's cursor: where and what it is, and whether showed
  timer,     \* armed: ITIMER_REAL runs; alarm: a SIGALRM waits to be read
  stage,     \* "idle" between two input() calls, "input", or "hung"
  ops,       \* operations of this input() call so far
  spoiled    \* the last column was blanked without being marked dirty, a
             \* call ended inside a character, or a late alarm painted

rowVars == <<term, screen, mCursor, timer, stage, ops, spoiled>>

Columns == 0 .. W - 1
Types == {"Single", "DoubleLeft", "DoubleRight"}
Cell == [char : Narrow \cup Wide, type : Types]
Erased == [char |-> Space, type |-> "Single"]
Attr(cell) == cell.char \in Bold

\* The cell read at index x; beyond the row lies the next stored line.
CellAt(row, x) == IF x \in Columns THEN row[x] ELSE Erased

\* A row none of whose double width characters lost a half.
Whole(row) ==
  \A c \in Columns :
    /\ row[c].type = "DoubleLeft" =>
         c + 1 \in Columns /\ row[c + 1] = [row[c] EXCEPT !.type = "DoubleRight"]
    /\ row[c].type = "DoubleRight" =>
         c > 0 /\ row[c - 1] = [row[c] EXCEPT !.type = "DoubleLeft"]

AtMost(a, b) == IF a < b THEN a ELSE b
AtLeast(a, b) == IF a > b THEN a ELSE b

-----------------------------------------------------------------------------
(* Painting.  A glyph is what one column shows of a character.             *)

Glyph(char, half) == [char |-> char, half |-> half]
Plain(char) == [glyph |-> Glyph(char, "Single"), cursor |-> FALSE]

\* The screen when cell c is painted at column p: one column, or two.
Painted(cell, p, i) ==
  [glyph  |-> Glyph(cell.char, IF cell.type = "Single" THEN "Single"
                               ELSE IF i = p THEN "DoubleLeft" ELSE "DoubleRight"),
   cursor |-> FALSE]

Width(cell) == IF cell.type = "Single" THEN 1 ELSE 2
Drawn(row, startx, endx) == {c \in startx .. endx : CellAt(row, c).type # "DoubleRight"}

\* expose paints runs of cells with equal attributes from the column their
\* first cell is in; a right half adds nothing, a left half takes two columns.
\* Per column: where its cell is painted, and where its run goes on.
Runs(row, startx, endx) ==
  LET run[c \in startx - 1 .. endx] ==
        IF c = startx - 1
        THEN [attr |-> Attr(CellAt(row, startx)), next |-> startx, at |-> -1]
        ELSE IF c \notin Drawn(row, startx, endx) THEN run[c - 1]
        ELSE LET at == IF Attr(CellAt(row, c)) = run[c - 1].attr
                       THEN run[c - 1].next ELSE c
             IN  [attr |-> Attr(CellAt(row, c)), at |-> at, next |-> at + Width(CellAt(row, c))]
  IN  run

\* The screen after expose for columns x1 .. x2 of the row.
expose(row, scr, x1, x2) ==
  LET startx == IF row[x1].type = "DoubleRight" THEN x1 - 1 ELSE x1
      endx   == IF row[x2].type = "DoubleLeft" THEN x2 + 1 ELSE x2
      run    == Runs(row, startx, endx)
      Over(p) == {c \in Drawn(row, startx, endx) : p \in run[c].at .. run[c].next - 1}
  IN  IF startx < 0 THEN scr        \* the u16 wraps: an empty run is drawn
      ELSE [p \in Columns |->
              IF Over(p) = {} THEN scr[p]
              ELSE Painted(CellAt(row, Max(Over(p))), run[Max(Over(p))].at, p)]

\* FbShell::updateCursor: show the cursor if it is hidden, hide it if shown.
Toggled(cur, scr, shape) ==
  LET showed == ~cur.showed
      x == IF cur.cell.type = "DoubleRight" THEN cur.x - 1 ELSE cur.x
      area == IF shape = "underline" THEN {cur.x}
              ELSE IF cur.cell.type = "Single" THEN {x} ELSE {x, x + 1}
  IN  CASE shape = "none" -> scr
        [] shape = "underline" -> [scr EXCEPT ![cur.x].cursor = showed]
        [] shape = "block" ->
             [p \in Columns |->
               IF p \in area
               THEN [Painted(cur.cell, x, p) EXCEPT !.cursor = showed]
               ELSE scr[p]]

updateCursor ==
  IF mCursor.x \notin Columns THEN UNCHANGED <<mCursor, screen>>
  ELSE /\ mCursor' = [mCursor EXCEPT !.showed = ~@]
       /\ screen' = Toggled(mCursor, screen, term.shape)

-----------------------------------------------------------------------------
(* Changing the row *)

changed_line(t, a, b) ==
  LET start == AtMost(a, W - 1)
      end   == AtMost(b, W - 1)
  IN  [t EXCEPT !.startx = AtMost(@, IF start > 0 THEN start - 1 ELSE start),
                !.endx   = AtLeast(@, IF end + 1 < W THEN end + 1 ELSE end)]

clear_area(t, a, b) ==
  IF a >= W \/ a > AtMost(b, W - 1) THEN t
  ELSE changed_line([t EXCEPT !.row = [c \in Columns |->
                       IF c \in a .. AtMost(b, W - 1) THEN Erased ELSE @[c]]],
                    a, AtMost(b, W - 1))

\* shift_text from the cursor to the end of the row, by n > 0 to the right,
\* by n < 0 to the left.
shift_text(t, n) ==
  LET Source(c) == IF n > 0 /\ c < t.cursor_x + n THEN -1 ELSE c - n
  IN  changed_line([t EXCEPT !.row = [c \in Columns |->
                      IF c < t.cursor_x THEN @[c]
                      ELSE IF Source(c) \in Columns THEN @[Source(c)]
                      ELSE Erased]],
                   t.cursor_x, W - 1)

move_cursor(t, x) ==
  LET to == AtMost(x, W - 1)
  IN  [t EXCEPT !.cursor_x =
         IF to > 0 /\ t.row[to].type = "DoubleRight" THEN to - 1 ELSE to]

\* next_line: the cursor goes to column 0 (of the row below).
Wrapped(t) == move_cursor(t, 0)

\* A character cannot stand at the cursor: it needs the row below.
Overflows(t, char) ==
  IF char \in Wide THEN t.cursor_x >= W - 1 ELSE t.cursor_x >= W

\* A wide character for which only the last column is left blanks it.
Blanks(t, char) == char \in Wide /\ t.auto_wrap /\ t.cursor_x = W - 1

\* Where do_normal_char writes.  A wide character that does not fit blanks
\* the last column without marking it dirty.
Room(t, char) ==
  IF ~Overflows(t, char) THEN t
  ELSE IF t.auto_wrap
  THEN Wrapped(IF Blanks(t, char) THEN [t EXCEPT !.row[W - 1] = Erased] ELSE t)
  ELSE [t EXCEPT !.cursor_x = W - 1]

Step(char) == IF char \in Wide THEN 2 ELSE 1

\* Insert mode moves cells one by one with a 16 bit index that counts down
\* to the cursor; it does not end when that is column 0.
Moves(t, char) == t.cursor_x <= W - Step(char) - 1
Endless(t, char) == t.insert_mode /\ Moves(t, char) /\ t.cursor_x = 0

Opened(t, char) ==
  IF t.insert_mode
  THEN changed_line([t EXCEPT !.row = [c \in Columns |->
                       IF c >= t.cursor_x + Step(char) THEN @[c - Step(char)]
                       ELSE @[c]]],
                    t.cursor_x, W - 1)
  ELSE changed_line(t, t.cursor_x, t.cursor_x + Step(char) - 1)

Written(t, char) ==
  LET x == t.cursor_x
      type(c) == IF char \in Narrow THEN "Single"
                 ELSE IF c = x THEN "DoubleLeft" ELSE "DoubleRight"
  IN  [t EXCEPT !.row = [c \in Columns |->
                           IF c \in x .. x + Step(char) - 1
                           THEN [char |-> char, type |-> type(c)] ELSE @[c]],
                !.cursor_x = x + Step(char)]

-----------------------------------------------------------------------------
RowInit ==
  /\ \E shape \in Shapes :
       /\ term = [row |-> [c \in Columns |-> Erased], cursor_x |-> 0,
                  startx |-> W, endx |-> 0, auto_wrap |-> TRUE,
                  insert_mode |-> FALSE, cursor_visible |-> TRUE,
                  shape |-> shape]
       /\ timer = [armed |-> shape # "none", alarm |-> FALSE]
  /\ screen = [c \in Columns |-> Plain(Space)]
  /\ mCursor = [x |-> -1, cell |-> Erased, showed |-> FALSE]
  /\ stage = "idle" /\ ops = 0 /\ spoiled = FALSE

\* mutant: the cell under the cursor is not repainted
BeginInput_KeepsCursor ==
  /\ stage = "idle" /\ ~spoiled
  /\ stage' = "input" /\ ops' = 0
  /\ UNCHANGED <<term, screen, mCursor, timer, spoiled>>

BeginInput ==
  /\ stage = "idle" /\ ~spoiled   \* bound: a spoiled row is not followed further
  /\ stage' = "input" /\ ops' = 0
  /\ term' = IF term.cursor_visible
             THEN changed_line(term, term.cursor_x, term.cursor_x) ELSE term
  /\ UNCHANGED <<screen, mCursor, timer, spoiled>>

\* One handler of this input() call: t is the state it leaves.
Handler(t) ==
  /\ stage = "input" /\ ops < MaxOps
  /\ term' = t
  /\ ops' = ops + 1
  /\ UNCHANGED <<screen, mCursor, stage>>

Edit(t) == Handler(t) /\ UNCHANGED <<timer, spoiled>>

do_normal_char(char) ==
  LET t == Room(term, char)
  IN  /\ ~(char \in Wide /\ Overflows(term, char) /\ ~term.auto_wrap)
      /\ ~Endless(t, char)
      /\ Handler(Written(Opened(t, char), char))
      /\ spoiled' = (spoiled \/ Blanks(term, char))
      /\ UNCHANGED timer

\* The same in insert mode at column 0: the loop runs on.
insert_at_column_0(char) ==
  /\ stage = "input" /\ ops < MaxOps
  /\ ~(char \in Wide /\ Overflows(term, char) /\ ~term.auto_wrap)
  /\ Endless(Room(term, char), char)
  /\ stage' = "hung"
  /\ UNCHANGED <<term, screen, mCursor, timer, ops, spoiled>>

bs ==
  /\ term.cursor_x > 0
  /\ LET x == term.cursor_x - 1
     IN  Edit(move_cursor(term, IF term.row[x].type = "DoubleRight" /\ x > 0
                                THEN x - 1 ELSE x))

cr == Edit(move_cursor(term, 0))

cursor_left(n) ==
  LET x == IF term.cursor_x < n THEN 0 ELSE term.cursor_x - n
  IN  Edit(move_cursor(term, IF x > 0 /\ CellAt(term.row, x).type = "DoubleRight"
                             THEN x - 1 ELSE x))

cursor_right(n) ==
  LET x == AtMost(term.cursor_x + n, W - 1)
  IN  Edit(move_cursor(term, IF x < W - 1 /\ term.row[x].type = "DoubleRight"
                             THEN x + 1 ELSE x))

cursor_position_col(x) == Edit(move_cursor(term, x - 1))

insert_char(n) ==
  Edit(IF n >= W - term.cursor_x THEN clear_area(term, term.cursor_x, W - 1)
       ELSE shift_text(term, n))

delete_char(n) ==
  Edit(IF n >= W - term.cursor_x THEN clear_area(term, term.cursor_x, W - 1)
       ELSE shift_text(term, -n))

erase_char(n) ==
  Edit(clear_area(term, term.cursor_x,
                  term.cursor_x + AtMost(n, W - term.cursor_x) - 1))

erase_line(mode) ==
  Edit(CASE mode = 0 -> clear_area(term, term.cursor_x, W - 1)
         [] mode = 1 -> clear_area(term, 0, term.cursor_x)
         [] mode = 2 -> clear_area(term, 0, W - 1))

enable_mode(mode, enable) == Edit([term EXCEPT ![mode] = enable])

\* A change of the cursor's visibility or shape arms or stops the timer
\* (FbShell::modeChanged, enableCursor); a signal already sent stays pending.
Rearmed(t) == [timer EXCEPT !.armed = t.cursor_visible /\ t.shape # "none"]

show_cursor(enable) ==
  LET t == [term EXCEPT !.cursor_visible = enable]
  IN  Handler(t) /\ timer' = Rearmed(t) /\ UNCHANGED spoiled

set_cursor_type(shape) ==
  LET t == [term EXCEPT !.shape = shape]
  IN  Handler(t) /\ timer' = Rearmed(t) /\ UNCHANGED spoiled

\* The end of input(): update paints the dirty columns, draw_cursor the cursor.
EndInput ==
  /\ stage = "input"
  /\ LET dirty == term.endx >= term.startx
         scr   == IF dirty THEN expose(term.row, screen, term.startx, term.endx)
                  ELSE screen
         cur   == [x |-> term.cursor_x, cell |-> CellAt(term.row, term.cursor_x),
                   showed |-> FALSE]
     IN  /\ IF ~term.cursor_visible
            THEN mCursor' = mCursor /\ screen' = scr
            ELSE IF cur.x \notin Columns
            THEN mCursor' = cur /\ screen' = scr
            ELSE /\ mCursor' = [cur EXCEPT !.showed = TRUE]
                 /\ screen' = Toggled(cur, scr, term.shape)
         /\ spoiled' = (spoiled \/ ~Whole(term.row))
  /\ term' = [term EXCEPT !.startx = W, !.endx = 0]
  /\ stage' = "idle" /\ ops' = 0
  /\ UNCHANGED timer

\* The flash timer expires; the signal is read some time later, and
\* updateCursor does not ask whether the cursor is still visible.
Expire ==
  /\ timer.armed /\ ~timer.alarm
  /\ stage = "idle"
  /\ timer' = [timer EXCEPT !.alarm = TRUE]
  /\ UNCHANGED <<term, screen, mCursor, stage, ops, spoiled>>

ReadAlarm ==
  /\ timer.alarm /\ stage = "idle"
  /\ timer' = [timer EXCEPT !.alarm = FALSE]
  /\ updateCursor
  /\ spoiled' = (spoiled \/ ~term.cursor_visible)
  /\ UNCHANGED <<term, stage, ops>>

RowNext ==
  \/ BeginInput \/ EndInput \/ Expire \/ ReadAlarm
  \/ \E char \in Narrow \cup Wide : do_normal_char(char) \/ insert_at_column_0(char)
  \/ bs \/ cr
  \/ \E n \in 1 .. 2 : \/ cursor_left(n) \/ cursor_right(n)
                       \/ insert_char(n) \/ delete_char(n) \/ erase_char(n)
  \/ \E x \in 1 .. W : cursor_position_col(x)
  \/ \E mode \in 0 .. 2 : erase_line(mode)
  \/ \E enable \in BOOLEAN : \/ enable_mode("insert_mode", enable)
                             \/ enable_mode("auto_wrap", enable)
                             \/ show_cursor(enable)
  \/ \E shape \in Shapes : set_cursor_type(shape)

RowSpec == RowInit /\ [][RowNext]_rowVars

-----------------------------------------------------------------------------
(* Properties *)

\* Ranges of the row state; the cursor may stand behind the last column.
RowTypeOK ==
  /\ term.row \in [Columns -> Cell]
  /\ term.cursor_x \in 0 .. W
  /\ term.startx \in 0 .. W /\ term.endx \in Columns
  /\ stage \in {"idle", "input", "hung"}

\* Between two input() calls every column of the frame buffer shows the
\* character stored for it, whatever was inserted, deleted or overwritten.
RowIsShown ==
  (stage = "idle" /\ ~spoiled) =>
    \A c \in Columns : screen[c].glyph = Glyph(term.row[c].char, term.row[c].type)

\* A cursor is shown nowhere but at the cursor, on both halves of the
\* character or on neither; moving on leaves no copy behind.
CursorShownOnce ==
  (stage = "idle" /\ ~spoiled) =>
    \A c \in Columns : screen[c].cursor =>
      /\ mCursor.showed
      /\ LET type == CellAt(term.row, term.cursor_x).type IN
         \/ c = term.cursor_x
         \/ c = term.cursor_x + 1 /\ type = "DoubleLeft"
         \/ c = term.cursor_x - 1 /\ type = "DoubleRight"
=============================================================================
