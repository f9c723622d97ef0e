----------------------------- MODULE VTermLines -----------------------------
(***************************************************************************)
(* The line store of one VTerm (src/src/lib/vterm.cpp): the indirection    *)
(* linenumbers[] from screen rows to stored lines, the ring of scroll-back *)
(* lines in front of them, the rows marked for repainting, the scrolling   *)
(* that is postponed to the end of an input() call, and what the frame     *)
(* buffer shows of it.                                                     *)
(*                                                                         *)
(* The columns of a row are abstracted to Zones, a few groups of adjacent  *)
(* columns: a change marks whole zones, and the content of a zone is a     *)
(* token.  The cell-exact effects (double width pairs, cursor_x, the one   *)
(* cell by which a dirty range is widened) are left out.  The size of the  *)
(* terminal is fixed: FbShell calls resize once, in its constructor.       *)
(***************************************************************************)
EXTENDS Integers, FiniteSets

CONSTANTS
  H,              \* height, the number of screen rows
  HistoryLines,   \* history_lines, the option "history-lines"
  Word,           \* number of values of a u16
  Zones,          \* groups of adjacent columns, in order
  Tokens,         \* what a zone of a line can hold
  Blank,          \* the token of an erased zone
  Foreign,        \* what the screen shows while another window owns it
  MaxImage,       \* bound: rows of the tallest sixel image, 0 for none
  WideChars,      \* whether double width characters are printed
  TallImages,     \* whether an image may scroll the whole region away while
                  \* an earlier scroll is postponed
  MaxPending      \* bound on |pending_scroll| within one input() call

ASSUME SizeAssumption ==
  /\ H \in Nat \ {0}
  /\ HistoryLines \in Nat
  /\ MaxImage \in Nat
  /\ MaxPending \in Nat

ASSUME TokenAssumption ==
  /\ Blank \in Tokens
  /\ Foreign \notin Tokens
  /\ WideChars \in BOOLEAN /\ TallImages \in BOOLEAN
  /\ Zones \subseteq Int /\ Zones # {}

ASSUME WordAssumption == Word \in Nat /\ HistoryLines < Word /\ H < Word

VARIABLES
  vt,      \* the fields of the VTerm object, and the rows shown
  phase,   \* "input" while input() consumes bytes, "idle" between calls
  active   \* whether this shell is FbShellManager's active one

vars == <<vt, phase, active>>

Rows  == 0 .. H - 1
Lines == 0 .. HistoryLines + H - 1
Line  == [Zones -> Tokens]
BlankLine == [z \in Zones |-> Blank]

Smaller(a, b) == IF a < b THEN a ELSE b
Absolute(n) == IF n < 0 THEN -n ELSE n

-----------------------------------------------------------------------------
(* Reading the store *)

total_history_lines(s) ==
  IF s.history_full THEN HistoryLines ELSE s.history_save_line

\* The stored line behind row y of the current view; the sum is a u16.
get_line(s, y) ==
  LET line == (s.visual_start_line + y) % Word
  IN  IF line >= total_history_lines(s)
      THEN s.linenumbers[line - total_history_lines(s)]
      ELSE ((IF s.history_full THEN s.history_save_line ELSE 0) + line)
             % HistoryLines

RowText(s, y) == s.text[s.linenumbers[y]]
ViewText(s, y) == s.text[get_line(s, y)]

-----------------------------------------------------------------------------
(* Changing the store.  Every operator maps the state of the object to its *)
(* next state, so that a handler that calls several of them composes them. *)

\* Zones zs of the stored lines ls become token v.
Fill(s, ls, zs, v) ==
  [l \in Lines |-> IF l \in ls
                   THEN [z \in Zones |-> IF z \in zs THEN v ELSE s.text[l][z]]
                   ELSE s.text[l]]

\* Mutant: a change is not marked.
changed_line_lost(s, ys, zs) == s

changed_line(s, ys, zs) ==
  [s EXCEPT !.dirty = [y \in Rows |-> IF y \in ys THEN s.dirty[y] \cup zs
                                                  ELSE s.dirty[y]]]

\* Write v to zones zs of the rows ys and mark them.
WriteArea(s, ys, zs, v) ==
  [changed_line(s, ys, zs) EXCEPT
     !.text = Fill(s, {s.linenumbers[y] : y \in ys}, zs, v)]

clear_area(s, ys, zs) == WriteArea(s, ys, zs, Blank)

\* Mutants: the ring counts as full one line late; the write position runs
\* past the end of the ring; the view is left where it was.
RingAdvance_full_late(s, num) ==
  LET full == s.history_full \/ s.history_save_line + num > HistoryLines
      next == (s.history_save_line + num) % HistoryLines
  IN  [s EXCEPT !.history_save_line = next,
                !.history_full = full,
                !.visual_start_line = IF full THEN HistoryLines ELSE next]

RingAdvance_no_wrap(s, num) ==
  [s EXCEPT !.history_save_line = @ + num,
            !.visual_start_line = @ + num]

RingAdvance_view_stays(s, num) ==
  [s EXCEPT !.history_save_line = (@ + num) % HistoryLines,
            !.history_full = @ \/ s.history_save_line + num >= HistoryLines]

\* The ring's write position after num more lines, and the view at its end.
RingAdvance(s, num) ==
  LET full == s.history_full \/ s.history_save_line + num >= HistoryLines
      next == (s.history_save_line + num) % HistoryLines
  IN  [s EXCEPT !.history_save_line = next,
                !.history_full = full,
                !.visual_start_line = IF full THEN HistoryLines ELSE next]

\* The rows 0 .. num-1 are copied to the ring, row i to the slot i after
\* history_save_line; of more rows than slots only the last ones remain.
history_scroll(s, num) ==
  IF HistoryLines = 0 THEN s ELSE
  LET slot(i) == (s.history_save_line + i) % HistoryLines
      kept(l) == {i \in 0 .. num - 1 : num - i <= HistoryLines /\ slot(i) = l}
      copied  == [l \in Lines |-> IF kept(l) = {} THEN s.text[l]
                                  ELSE RowText(s, CHOOSE i \in kept(l) : TRUE)]
  IN  RingAdvance([s EXCEPT !.text = copied], num)

\* Mutants: an off-by-one where the region wraps; the wrong direction.
takey_wraps_early(start, end, num, y) ==
  IF y + num < start THEN end - (start - (y + num))
  ELSE IF y + num > end THEN start + (y + num - end)
  ELSE y + num

takey_reversed(start, end, num, y) ==
  IF y - num < start THEN end + 1 - (start - (y - num))
  ELSE IF y - num > end THEN start - 1 + (y - num - end)
  ELSE y - num

\* The row whose line moves to row y when start..end moves up by num, the
\* rows that leave the region coming back at its other end.
takey(start, end, num, y) ==
  IF y + num < start THEN end + 1 - (start - (y + num))
  ELSE IF y + num > end THEN start - 1 + (y + num - end)
  ELSE y + num

\* Rows start..end move up by num (down when negative), the vacated rows are
\* cleared.  A move by the whole region renumbers and clears nothing.
scroll_region(s, start, end, n) ==
  IF n = 0 \/ start > end THEN s ELSE
  LET mx    == end - start + 1
      num   == IF n > mx THEN mx ELSE IF -n > mx THEN -mx ELSE n
      h     == IF start = 0 /\ num > 0 THEN history_scroll(s, num) ELSE s
      fast  == start = s.scroll_top /\ end = s.scroll_bot
      take  == [y \in Rows |-> IF y \in start .. end
                               THEN takey(start, end, num, y) ELSE y]
      clr   == {y \in start .. end : y + num \notin start .. end}
      moved == [h EXCEPT
                  !.pending_scroll = IF fast THEN @ + num ELSE @,
                  !.linenumbers = [y \in Rows |-> s.linenumbers[take[y]]],
                  !.dirty = [y \in Rows |->
                               IF y \in start .. end /\ (~fast \/ y \in clr)
                               THEN Zones ELSE s.dirty[take[y]]]]
  IN  IF Absolute(num) < mx
      THEN clear_area(moved, clr, Zones)
      ELSE [h EXCEPT !.pending_scroll = IF fast THEN @ + num ELSE @]

\* Mutant: the last row of the region is not moved.
MoveTargets_short(s) ==
  LET p == s.pending_scroll
      mx == s.scroll_bot - s.scroll_top + 1
  IN  IF p # 0 /\ p < mx /\ -p < mx
      THEN {y \in s.scroll_top .. s.scroll_bot :
              y + p \in s.scroll_top .. s.scroll_bot - 1}
      ELSE {}

\* The part of the screen that update() moves instead of repainting.
MoveTargets(s) ==
  LET p == s.pending_scroll
      mx == s.scroll_bot - s.scroll_top + 1
  IN  IF p # 0 /\ p < mx /\ -p < mx
      THEN {y \in s.scroll_top .. s.scroll_bot :
              y + p \in s.scroll_top .. s.scroll_bot}
      ELSE {}

\* Repaint zones d[y] of every row y from the current view.  Drawing reaches
\* the screen only while the shell is the active one.
requestUpdate(s, d, act) ==
  [s EXCEPT !.shown = [y \in Rows |-> [z \in Zones |->
     IF act /\ z \in d[y] THEN ViewText(s, y)[z] ELSE s.shown[y][z]]]]

\* ok is what moveChars returned: FALSE when the screen could not move pixels.
update(s, ok, act) ==
  LET dst == MoveTargets(s)
      p   == s.pending_scroll
      d   == [y \in Rows |-> IF y \in dst /\ ~ok THEN Zones ELSE s.dirty[y]]
      m   == [s EXCEPT
                !.shown = [y \in Rows |-> IF act /\ ok /\ y \in dst
                                          THEN s.shown[y + p] ELSE s.shown[y]],
                !.pending_scroll = 0,
                !.dirty = [y \in Rows |-> {}]]
  IN  requestUpdate(m, d, act)

\* Whether a view moved by n rows reuses the pixels on the screen.
accel_scroll(n, ok) == Absolute(n) < H /\ ok

\* The rows that a view moved by n rows has to repaint.
RepaintedRows(n, accel) ==
  IF accel THEN {y \in Rows : y + n \notin Rows} ELSE Rows

\* The view moves to start_ (clamped); rows that stay visible are moved on
\* the screen when moveChars succeeds, otherwise everything is repainted.
historyDisplay(s, start_, ok, act) ==
  LET total == total_history_lines(s)
      want  == IF start_ < 0 THEN 0 ELSE Smaller(start_, total)
      n     == want - s.visual_start_line
      v     == [s EXCEPT !.visual_start_line = want]
      accel == accel_scroll(n, ok)
      new   == RepaintedRows(n, accel)
      m     == [v EXCEPT !.shown = [y \in Rows |->
                  IF act /\ y + n \in Rows /\ accel THEN s.shown[y + n]
                                                    ELSE s.shown[y]]]
  IN  IF HistoryLines = 0 \/ n = 0 THEN s
      ELSE requestUpdate(m, [y \in Rows |-> IF y \in new
                                            THEN Zones ELSE {}], act)

move_cursor(s, y) == [s EXCEPT !.cursor_y = Smaller(y, H - 1)]

linefeed(s) ==
  IF s.cursor_y < s.scroll_bot THEN move_cursor(s, s.cursor_y + 1)
  ELSE scroll_region(s, s.scroll_top, s.scroll_bot, 1)

-----------------------------------------------------------------------------
(* The constructor: VTerm::VTerm, reset and the first resize *)

Init ==
  /\ vt = [linenumbers |-> [y \in Rows |-> (HistoryLines + y) % Word],
            text        |-> [l \in Lines |-> BlankLine],
            dirty       |-> [y \in Rows |-> Zones],
            pending_scroll |-> 0,
            scroll_top  |-> 0,
            scroll_bot  |-> H - 1,
            cursor_y    |-> 0,
            history_save_line |-> 0,
            history_full      |-> FALSE,
            visual_start_line |-> 0,
            shown |-> [y \in Rows |-> [z \in Zones |-> Foreign]]]
  /\ phase = "idle"
  /\ active = FALSE

\* moveChars reports success to an inactive shell.
MoveResults == IF active THEN BOOLEAN ELSE {TRUE}

-----------------------------------------------------------------------------
(* input(): the view returns to the bottom, the bytes act one by one, the *)
(* screen is brought up to date at the end                                *)

BeginInput(ok) ==
  /\ phase = "idle"
  /\ phase' = "input"
  /\ vt' = historyDisplay(vt, total_history_lines(vt), ok, active)
  /\ UNCHANGED active

EndInput(ok) ==
  /\ phase = "input"
  /\ phase' = "idle"
  /\ vt' = update(vt, ok, active)
  /\ UNCHANGED active

\* One handler run by input(), with its result s.
Handle(s) ==
  /\ phase = "input"
  /\ Absolute(s.pending_scroll) <= MaxPending
  /\ vt' = s
  /\ UNCHANGED <<phase, active>>

lf == Handle(linefeed(vt))

index_up ==
  Handle(IF vt.cursor_y > vt.scroll_top THEN move_cursor(vt, vt.cursor_y - 1)
         ELSE scroll_region(vt, vt.scroll_top, vt.scroll_bot, -1))

\* A character at the cursor, after a line feed when the row was full.
do_normal_char(zs, v, wrap) ==
  LET s == IF wrap THEN linefeed(vt) ELSE vt
  IN  Handle(WriteArea(s, {s.cursor_y}, zs, v))

\* A double width character at the last column: that cell is blanked, without
\* a call of changed_line, before the character goes to the next row.
wide_char_wraps(zs, v) ==
  LET last == {z \in Zones : \A x \in Zones : x <= z}
      b == [vt EXCEPT !.text =
              Fill(vt, {vt.linenumbers[vt.cursor_y]}, last, Blank)]
      s == linefeed(b)
  IN  WideChars /\ Handle(WriteArea(s, {s.cursor_y}, zs, v))

\* insert_char, delete_char, erase_char and erase_line change a part of the
\* cursor's row.
edit_row(zs, v) == Handle(WriteArea(vt, {vt.cursor_y}, zs, v))

insert_line(n) ==
  LET mx == vt.scroll_bot - vt.cursor_y + 1
  IN  Handle(IF n >= mx
             THEN clear_area(vt, vt.cursor_y .. vt.scroll_bot, Zones)
             ELSE scroll_region(vt, vt.cursor_y, vt.scroll_bot, -n))

delete_line(n) ==
  LET mx == vt.scroll_bot - vt.cursor_y + 1
  IN  Handle(IF n >= mx
             THEN clear_area(vt, vt.cursor_y .. vt.scroll_bot, Zones)
             ELSE scroll_region(vt, vt.cursor_y, vt.scroll_bot, n))

\* To the end (0), to the start (1): the cursor's row is erased in part.
erase_display(param, zs) ==
  LET part == clear_area(vt, {vt.cursor_y}, zs)
      rest == CASE param = 0 -> vt.cursor_y + 1 .. H - 1
                [] param = 1 -> 0 .. vt.cursor_y - 1
                [] param = 2 -> Rows
  IN  Handle(clear_area(IF param = 2 THEN vt ELSE part, rest, Zones))

screen_align(v) == Handle(WriteArea(vt, Rows, Zones, v))

cursor_position(y) == Handle(move_cursor(vt, y))

\* The margins are parameters of the program's output: t need not be above b.
set_margins(t, b, ok) ==
  LET s == IF vt.pending_scroll # 0 THEN update(vt, ok, active) ELSE vt
      m == [s EXCEPT !.scroll_top = t, !.scroll_bot = b]
      d == IF m.cursor_y < t THEN move_cursor(m, t) ELSE m
  IN  Handle(IF d.cursor_y > b THEN move_cursor(d, b) ELSE d)

reset ==
  Handle(clear_area([vt EXCEPT !.pending_scroll = 0, !.scroll_top = 0,
                               !.scroll_bot = H - 1, !.cursor_y = 0],
                    Rows, Zones))

\* Mutant: the room to the bottom of the screen.
ImageRoom_of_screen(s) == H - s.cursor_y

\* The rows from the cursor to the bottom margin.
ImageRoom(s) == s.scroll_bot + 1 - s.cursor_y

\* An image of n rows on the columns zs: scroll to make room, repaint, then
\* mark the cells it covers and put the cursor below it.
ImagePlaced(s, n, zs, v, ok, act) ==
  LET room == ImageRoom(s)
      mx   == s.scroll_bot - s.scroll_top + 1
      need == Smaller(n - room, mx)
      up   == IF n > room
              THEN update(scroll_region(s, s.scroll_top, s.scroll_bot, need),
                          ok, act)
              ELSE s
      cur  == IF n <= room THEN s.cursor_y
              ELSE IF s.cursor_y >= s.scroll_top + need
                   THEN s.cursor_y - need ELSE s.scroll_top
      end  == Smaller(cur + n, H)
  IN  move_cursor(WriteArea(up, cur .. end - 1, zs, v), end)

\* Room for an image of n rows takes all rows of the region: scroll_region
\* counts such a scroll as postponed and moves no line.
ScrollsAll(s, n) ==
  /\ s.scroll_top < s.scroll_bot
  /\ n - ImageRoom(s) > s.scroll_bot - s.scroll_top

sixel_copy_to_cells(n, zs, v, ok) ==
  /\ TallImages \/ vt.pending_scroll = 0 \/ ~ScrollsAll(vt, n)
  /\ Handle(ImagePlaced(vt, n, zs, v, ok, active))

-----------------------------------------------------------------------------
(* Between two calls of input() *)

\* FbShellManager::historyScroll, for the active shell, by one screen.
historyScroll(down, ok) ==
  /\ phase = "idle" /\ active
  /\ vt' = historyDisplay(vt, vt.visual_start_line + (IF down THEN H ELSE -H),
                          ok, active)
  /\ UNCHANGED <<phase, active>>

\* FbShellManager makes this shell the active one and redraws the screen.
Activate ==
  /\ phase = "idle" /\ ~active
  /\ active' = TRUE
  /\ vt' = requestUpdate(vt, [y \in Rows |-> Zones], TRUE)
  /\ UNCHANGED phase

\* Another window draws over the whole screen.
Deactivate ==
  /\ phase = "idle" /\ active
  /\ active' = FALSE
  /\ vt' = [vt EXCEPT !.shown = [y \in Rows |-> [z \in Zones |-> Foreign]]]
  /\ UNCHANGED phase

ZoneSets == (SUBSET Zones) \ {{}}

Next ==
  \/ \E ok \in MoveResults : BeginInput(ok) \/ EndInput(ok)
  \/ lf
  \/ index_up
  \/ \E zs \in ZoneSets, v \in Tokens, wrap \in BOOLEAN :
       do_normal_char(zs, v, wrap)
  \/ \E zs \in ZoneSets, v \in Tokens : wide_char_wraps(zs, v)
  \/ \E zs \in ZoneSets, v \in Tokens : edit_row(zs, v)
  \/ \E n \in 1 .. H : insert_line(n) \/ delete_line(n)
  \/ \E param \in 0 .. 2, zs \in ZoneSets : erase_display(param, zs)
  \/ \E v \in Tokens : screen_align(v)
  \/ \E y \in Rows : cursor_position(y)
  \/ \E t, b \in Rows, ok \in MoveResults : set_margins(t, b, ok)
  \/ reset
  \/ \E n \in 1 .. MaxImage, zs \in ZoneSets, v \in Tokens,
        ok \in MoveResults : sixel_copy_to_cells(n, zs, v, ok)
  \/ \E down \in BOOLEAN, ok \in MoveResults : historyScroll(down, ok)
  \/ Activate
  \/ Deactivate

Spec == Init /\ [][Next]_vars

-----------------------------------------------------------------------------
(* Properties *)

VTermState ==
  [linenumbers: [Rows -> Lines],
   text:        [Lines -> Line],
   dirty:       [Rows -> SUBSET Zones],
   pending_scroll: Int,
   scroll_top:  Rows,
   scroll_bot:  Rows,
   cursor_y:    Rows,
   history_save_line: Nat,
   history_full:      BOOLEAN,
   visual_start_line: Nat,
   shown: [Rows -> [Zones -> Tokens \cup {Foreign}]]]

\* A state of the object whose ring position and view lie in the ring.
StoreOK(s) ==
  /\ s \in VTermState
  /\ HistoryLines > 0 => s.history_save_line < HistoryLines
  /\ HistoryLines = 0 => s.history_save_line = 0 /\ ~s.history_full
  /\ s.visual_start_line <= total_history_lines(s)

\* Every field keeps its type; the cursor and both margins stay on the screen
\* through every handler, the cursor arithmetic of the sixel scroll included,
\* and the ring's write position stays inside the ring.
TypeOK ==
  /\ StoreOK(vt)
  /\ phase \in {"idle", "input"}
  /\ active \in BOOLEAN

Permutation(s) ==
  /\ s.linenumbers \in [Rows -> HistoryLines .. HistoryLines + H - 1]
  /\ \A x, y \in Rows : s.linenumbers[x] = s.linenumbers[y] => x = y

\* The renumbering of scroll_region never lets two rows share a stored line,
\* nor a row reach into the scroll-back ring: however often regions of
\* different sizes were scrolled, the screen rows are a permutation of the
\* lines behind the ring.
LinesPermutation == Permutation(vt)

\* Between two calls of input() the screen of the active shell shows exactly
\* the stored lines of the view, whatever scrolls were postponed, failed or
\* applied by moving pixels, and whatever happened while it was inactive.
DisplayMatchesBuffer ==
  phase = "idle" /\ active => \A y \in Rows : vt.shown[y] = ViewText(vt, y)

\* While bytes are processed the view is at the bottom: the rows repainted by
\* update() are the rows the handlers changed.
ViewAtBottom ==
  phase = "input" => vt.visual_start_line = total_history_lines(vt)

\* The rows of the margins in one direction; empty when the top margin was
\* set below the bottom one.
Region == vt.scroll_top .. vt.scroll_bot

\* What a double width character that wraps may leave of the text of its row.
Shortened(text) ==
  IF WideChars THEN {[text EXCEPT ![z] = Blank] : z \in DOMAIN text} ELSE {}

\* A step in which a postponed scroll grew or shrank.
Scrolls == phase' = "input" /\ vt'.pending_scroll \notin {0, vt.pending_scroll}

\* A scroll of the margins' region by n rows puts row y+n on row y for every
\* row that stays in it, and leaves every row outside the margins alone.  The
\* row of the cursor is excepted: a character may have been printed on it; the
\* last column of the row it comes from may have been given up for a wide one.
ScrollShiftsRegion ==
  [][Scrolls =>
       LET n == vt'.pending_scroll - vt.pending_scroll
           Kept(y) == {RowText(vt, y)} \cup
             (IF y = vt.cursor_y THEN Shortened(RowText(vt, y)) ELSE {})
       IN  \A y \in Rows \ {vt'.cursor_y} :
             /\ y \notin Region => RowText(vt', y) = RowText(vt, y)
             /\ y \in Region /\ y + n \in Region /\ vt.scroll_top < vt.scroll_bot
                  => RowText(vt', y) \in Kept(y + n)]_vars

\* "Auto-scroll to make room if image extends past scroll bottom"
\* (vterm_sixel.cpp:417): an image that is no taller than the margins' region,
\* printed with the cursor inside it, ends inside it; the rows above and below
\* the margins keep their text.
ImageStaysInMargins ==
  phase = "input" /\ vt.cursor_y \in Region =>
    \A n \in 1 .. Smaller(MaxImage, vt.scroll_bot - vt.scroll_top + 1),
       v \in Tokens :
      LET s == ImagePlaced(vt, n, Zones, v, TRUE, active)
      IN  \A y \in Rows \ Region : RowText(s, y) = RowText(vt, y)

\* What row y shows once the postponed move has been made.
Expected(s, y) ==
  IF y \in MoveTargets(s) THEN s.shown[y + s.pending_scroll] ELSE s.shown[y]

\* The reason DisplayMatchesBuffer holds: in the middle of input(), a zone
\* that is not marked will show the right text after the postponed move, and
\* a row that this move does not bring is marked as a whole.
PostponedSync ==
  active /\ phase = "input" =>
    /\ \A y \in Rows : \A z \in Zones \ vt.dirty[y] :
         Expected(vt, y)[z] = RowText(vt, y)[z]
    /\ vt.pending_scroll # 0 /\ vt.scroll_top < vt.scroll_bot =>
         \A y \in Region \ MoveTargets(vt) : vt.dirty[y] = Zones

\* The scroll-back log of the window as a reader of the screen sees it.
HistoryLine(i) ==
  vt.text[((IF vt.history_full THEN vt.history_save_line ELSE 0) + i - 1)
            % HistoryLines]

History == INSTANCE Scrollback WITH
  Limit <- HistoryLines,
  PageSize <- H,
  Shortened <- Shortened,
  log  <- [i \in 1 .. total_history_lines(vt) |-> HistoryLine(i)],
  page <- [i \in 1 .. H |-> RowText(vt, i - 1)],
  view <- vt.visual_start_line

\* The ring, the renumbering and the view together implement the scroll-back
\* log: scrolling by several lines, wrapping the ring in the middle of one
\* scroll and reading it from any position.
ImplementsScrollback == History!SSpec

=============================================================================
