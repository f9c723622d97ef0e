------------------------- MODULE VTermScreenProofs --------------------------
(***************************************************************************)
(* The ring of lines and what the screen shows of it, for every screen     *)
(* height, history length, division of the columns and set of tokens: that *)
(* no line is lost, the repaint that input() postpones, the pixels that    *)
(* update() moves instead, and what a scroll does to the text.  The        *)
(* invariant of the screen is ScreenInv: during input(), a zone that is    *)
(* not marked will be right once the postponed scroll has moved the pixels *)
(* (Due), and a row that this move does not bring is marked as a whole     *)
(* (Marked).                                                               *)
(*                                                                         *)
(* The last part shows that the ring of scroll-back lines, the renumbering *)
(* and the view implement the log of Scrollback: what LogOf reads from the *)
(* ring after a scroll is the old log followed by the top rows (After).    *)
(***************************************************************************)
EXTENDS VTermLines, SequenceTheorems, TLAPS

(***************************************************************************)
(* First the ring of lines itself.  The inductive invariant is             *)
(* StoreOK /\ Permutation: the type of the store needs the permutation (a  *)
(* row's line must be a stored line) and the permutation needs the type    *)
(* (margins and cursor on the screen bound the scrolled region).  One      *)
(* lemma per operator of the model says that it preserves this invariant;  *)
(* the steps of Next only combine operators.                               *)
(***************************************************************************)

\* The option "history-lines" leaves room for the screen in a u16.
NoOverflow == HistoryLines + H <= Word

WF(s) == StoreOK(s) /\ Permutation(s)

-----------------------------------------------------------------------------
(* Arithmetic *)

LEMMA ModRange ==
  ASSUME NEW a \in Nat, NEW m \in Nat, m > 0
  PROVE  a % m \in 0 .. m - 1
OBVIOUS

LEMMA ModSmall ==
  ASSUME NEW a \in Nat, NEW m \in Nat, a < m
  PROVE  a % m = a
OBVIOUS

\* The renumbering of a region stays in it and is one-to-one.
LEMMA TakeyInRegion ==
  ASSUME NEW start \in Int, NEW end \in Int, NEW num \in Int,
         Absolute(num) < end - start + 1, NEW y \in start .. end
  PROVE  takey(start, end, num, y) \in start .. end
BY DEF takey, Absolute

LEMMA TakeyInjective ==
  ASSUME NEW start \in Int, NEW end \in Int, NEW num \in Int,
         Absolute(num) < end - start + 1,
         NEW x \in start .. end, NEW y \in start .. end,
         takey(start, end, num, x) = takey(start, end, num, y)
  PROVE  x = y
BY DEF takey, Absolute

-----------------------------------------------------------------------------
(* Each operator keeps the store well formed *)

LEMMA ChangedLineWF ==
  ASSUME NEW s, WF(s), NEW ys, NEW zs \in SUBSET Zones
  PROVE  WF(changed_line(s, ys, zs))
BY DEF WF, StoreOK, Permutation, VTermState, changed_line, total_history_lines

LEMMA FillType ==
  ASSUME NEW s, WF(s), NEW ls, NEW zs, NEW v \in Tokens
  PROVE  Fill(s, ls, zs, v) \in [Lines -> Line]
BY DEF WF, StoreOK, VTermState, Fill, Line

LEMMA WriteAreaWF ==
  ASSUME NEW s, WF(s), NEW ys, NEW zs \in SUBSET Zones, NEW v \in Tokens
  PROVE  WF(WriteArea(s, ys, zs, v))
<1> DEFINE c == changed_line(s, ys, zs)
           t == Fill(s, {s.linenumbers[y] : y \in ys}, zs, v)
<1>1. WF(c)
  BY ChangedLineWF
<1>2. t \in [Lines -> Line]
  BY FillType
<1>3. WriteArea(s, ys, zs, v) = [c EXCEPT !.text = t]
  BY DEF WriteArea
<1> HIDE DEF c, t
<1>4. WF([c EXCEPT !.text = t])
  BY <1>1, <1>2 DEF WF, StoreOK, Permutation, VTermState, total_history_lines
<1> QED
  BY <1>3, <1>4

LEMMA RingAdvanceWF ==
  ASSUME NEW s, WF(s), NEW num \in Nat, HistoryLines > 0
  PROVE  WF(RingAdvance(s, num))
<1> DEFINE next == (s.history_save_line + num) % HistoryLines
           full == s.history_full \/ s.history_save_line + num >= HistoryLines
           r    == RingAdvance(s, num)
<1>1. next \in 0 .. HistoryLines - 1
  BY ModRange, SizeAssumption DEF WF, StoreOK, VTermState
<1>2. r = [s EXCEPT !.history_save_line = next, !.history_full = full,
                    !.visual_start_line = IF full THEN HistoryLines ELSE next]
  BY DEF RingAdvance
<1>3. full \in BOOLEAN
  OBVIOUS
<1>4. s \in VTermState /\ Permutation(s)
  BY DEF WF, StoreOK
<1> HIDE DEF next, full, r
<1> DEFINE view == IF full THEN HistoryLines ELSE next
           a == [s EXCEPT !.history_save_line = next]
           b == [a EXCEPT !.history_full = full]
           c == [b EXCEPT !.visual_start_line = view]
<1>5. next \in Nat /\ view \in Nat
  BY <1>1, SizeAssumption
<1>6. r = c
  BY <1>2
<1> HIDE DEF view
<1>7. a \in VTermState /\ a.linenumbers = s.linenumbers
      /\ a.history_save_line = next
  BY <1>5, <1>4 DEF VTermState
<1> HIDE DEF a
<1>8. b \in VTermState /\ b.linenumbers = a.linenumbers
      /\ b.history_save_line = a.history_save_line /\ b.history_full = full
  BY <1>7, <1>3 DEF VTermState
<1> HIDE DEF b
<1>9. c \in VTermState /\ c.linenumbers = b.linenumbers
      /\ c.history_save_line = b.history_save_line
      /\ c.history_full = b.history_full /\ c.visual_start_line = view
  BY <1>8, <1>5 DEF VTermState
<1> HIDE DEF c
<1>10. /\ r \in VTermState
       /\ r.history_save_line = next
       /\ r.history_full = full
       /\ r.visual_start_line = IF full THEN HistoryLines ELSE next
       /\ r.linenumbers = s.linenumbers
  BY <1>6, <1>7, <1>8, <1>9 DEF view
<1>11. StoreOK(r)
  BY <1>1, <1>10, SizeAssumption DEF StoreOK, total_history_lines
<1>12. Permutation(r)
  BY <1>4, <1>10 DEF Permutation
<1> QED
  BY <1>11, <1>12 DEF WF, r

LEMMA HistoryScrollWF ==
  ASSUME NEW s, WF(s), NEW num \in 0 .. H
  PROVE  WF(history_scroll(s, num))
<1>1. CASE HistoryLines = 0
  BY <1>1 DEF history_scroll
<1>2. CASE HistoryLines # 0
  <2> DEFINE slot(i) == (s.history_save_line + i) % HistoryLines
             kept(l) == {i \in 0 .. num - 1 :
                           num - i <= HistoryLines /\ slot(i) = l}
             copied == [l \in Lines |->
                          IF kept(l) = {} THEN s.text[l]
                          ELSE RowText(s, CHOOSE i \in kept(l) : TRUE)]
  <2>1. \A i \in Rows : RowText(s, i) \in Line
    BY SizeAssumption
       DEF WF, StoreOK, Permutation, VTermState, RowText, Rows, Lines
  <2>2. \A l \in Lines : kept(l) # {} => (CHOOSE i \in kept(l) : TRUE) \in Rows
    BY SizeAssumption DEF Rows
  <2>3. copied \in [Lines -> Line]
    BY <2>1, <2>2 DEF WF, StoreOK, VTermState
  <2>4. history_scroll(s, num) = RingAdvance([s EXCEPT !.text = copied], num)
    BY <1>2 DEF history_scroll
  <2> HIDE DEF copied
  <2>5. WF([s EXCEPT !.text = copied])
    BY <2>3 DEF WF, StoreOK, Permutation, VTermState, total_history_lines
  <2> QED
    BY <1>2, <2>4, <2>5, RingAdvanceWF, SizeAssumption
<1> QED
  BY <1>1, <1>2

\* One field at a time: the postponed scroll, and the marks.
LEMMA PendingWF ==
  ASSUME NEW s, WF(s), NEW p \in Int
  PROVE  WF([s EXCEPT !.pending_scroll = p])
BY DEF WF, StoreOK, Permutation, VTermState, total_history_lines

LEMMA DirtyWF ==
  ASSUME NEW s, WF(s), NEW d \in [Rows -> SUBSET Zones]
  PROVE  WF([s EXCEPT !.dirty = d])
BY DEF WF, StoreOK, Permutation, VTermState, total_history_lines

\* New row numbers, marks and postponed scroll for a well formed store.
LEMMA RenumberWF ==
  ASSUME NEW s, WF(s), NEW p \in Int, NEW d \in [Rows -> SUBSET Zones],
         NEW ln \in [Rows -> HistoryLines .. HistoryLines + H - 1],
         \A x, y \in Rows : ln[x] = ln[y] => x = y
  PROVE  WF([s EXCEPT !.pending_scroll = p, !.linenumbers = ln, !.dirty = d])
<1> DEFINE a == [s EXCEPT !.pending_scroll = p]
           b == [a EXCEPT !.linenumbers = ln]
           c == [b EXCEPT !.dirty = d]
<1>1. WF(a)
  BY PendingWF
<1>2. [s EXCEPT !.pending_scroll = p, !.linenumbers = ln, !.dirty = d] = c
  OBVIOUS
<1> HIDE DEF a
<1>3. ln \in [Rows -> Lines]
  BY SizeAssumption DEF Lines
<1>4. WF(b)
  BY <1>1, <1>3 DEF WF, StoreOK, Permutation, VTermState, total_history_lines
<1> HIDE DEF b
<1>5. WF(c)
  BY <1>4, DirtyWF
<1> QED
  BY <1>2, <1>5

LEMMA ScrollRegionWF ==
  ASSUME NEW s, WF(s), NEW start \in Rows, NEW end \in Rows, NEW n \in Int
  PROVE  WF(scroll_region(s, start, end, n))
<1>1. CASE n = 0 \/ start > end
  BY <1>1 DEF scroll_region
<1>2. CASE ~(n = 0 \/ start > end)
  <2> DEFINE mx   == end - start + 1
             num  == IF n > mx THEN mx ELSE IF -n > mx THEN -mx ELSE n
             h    == IF start = 0 /\ num > 0 THEN history_scroll(s, num) ELSE s
             fast == start = s.scroll_top /\ end = s.scroll_bot
             take == [y \in Rows |-> IF y \in start .. end
                                     THEN takey(start, end, num, y) ELSE y]
             clr  == {y \in start .. end : y + num \notin start .. end}
             p    == IF fast THEN h.pending_scroll + num ELSE h.pending_scroll
             ln   == [y \in Rows |-> s.linenumbers[take[y]]]
             d    == [y \in Rows |-> IF y \in start .. end /\ (~fast \/ y \in clr)
                                     THEN Zones ELSE s.dirty[take[y]]]
             moved == [h EXCEPT !.pending_scroll = p, !.linenumbers = ln,
                                !.dirty = d]
  <2>1. /\ mx \in 1 .. H /\ num \in Int /\ num <= mx /\ -num <= mx
        /\ start = 0 /\ num > 0 => num \in 0 .. H
    BY <1>2, SizeAssumption DEF Rows
  <2> HIDE DEF num
  <2>2. WF(h)
    BY <2>1, HistoryScrollWF
  <2>3. scroll_region(s, start, end, n) =
          IF Absolute(num) < mx THEN clear_area(moved, clr, Zones)
          ELSE [h EXCEPT !.pending_scroll = p]
    BY <1>2 DEF scroll_region, num
  <2>4. p \in Int
    BY <2>1, <2>2 DEF WF, StoreOK, VTermState
  <2>5. ASSUME Absolute(num) < mx PROVE WF(clear_area(moved, clr, Zones))
    <3>1. \A y \in start .. end : takey(start, end, num, y) \in start .. end
      BY <2>1, <2>5, TakeyInRegion DEF Rows
    <3>2. start .. end \subseteq Rows
      BY SizeAssumption DEF Rows
    <3>3. take \in [Rows -> Rows]
      BY <3>1, <3>2
    <3>4. ASSUME NEW x \in Rows, NEW y \in Rows, take[x] = take[y] PROVE x = y
      <4>1. CASE x \in start .. end /\ y \in start .. end
        BY <4>1, <2>1, <2>5, <3>4, TakeyInjective DEF Rows
      <4>2. CASE ~(x \in start .. end /\ y \in start .. end)
        BY <4>2, <3>1, <3>4
      <4> QED
        BY <4>1, <4>2
    <3> HIDE DEF take
    <3>5. ln \in [Rows -> HistoryLines .. HistoryLines + H - 1]
      BY <3>3 DEF WF, Permutation
    <3>6. \A x, y \in Rows : ln[x] = ln[y] => x = y
      BY <3>3, <3>4 DEF WF, Permutation
    <3>7. d \in [Rows -> SUBSET Zones]
      BY <3>3 DEF WF, StoreOK, VTermState
    <3> HIDE DEF ln, d, p, h
    <3>8. WF(moved)
      BY <2>2, <2>4, <3>5, <3>6, <3>7, RenumberWF
    <3> QED
      BY <3>8, WriteAreaWF, TokenAssumption DEF clear_area
  <2>6. WF([h EXCEPT !.pending_scroll = p])
    <3> HIDE DEF h, p
    <3> QED
      BY <2>2, <2>4, PendingWF
  <2> QED
    BY <2>3, <2>5, <2>6
<1> QED
  BY <1>1, <1>2

-----------------------------------------------------------------------------
(* The view and the screen *)

\* The view reads stored lines.  This is where the sum in get_line must not
\* wrap around: the store, screen rows included, has to fit in a u16.
LEMMA GetLineType ==
  ASSUME NoOverflow, NEW s, WF(s), NEW y \in Rows
  PROVE  get_line(s, y) \in Lines
<1> DEFINE total == total_history_lines(s)
           line  == (s.visual_start_line + y) % Word
<1>1. /\ total \in 0 .. HistoryLines
      /\ s.visual_start_line \in 0 .. total
      /\ s.history_save_line \in Nat
      /\ HistoryLines > 0 => s.history_save_line < HistoryLines
  BY SizeAssumption DEF WF, StoreOK, VTermState, total_history_lines
<1>2. line = s.visual_start_line + y
  BY <1>1, ModSmall, SizeAssumption, WordAssumption DEF NoOverflow, Rows
<1>3. CASE line >= total
  <2>1. line - total \in Rows
    BY <1>1, <1>2, <1>3, SizeAssumption DEF Rows
  <2> QED
    BY <2>1, <1>3 DEF get_line, WF, StoreOK, VTermState
<1>4. CASE line < total
  <2>1. HistoryLines > 0 /\ line \in Nat
    BY <1>1, <1>2, <1>4, SizeAssumption DEF Rows
  <2>2. \A a \in Nat : a % HistoryLines \in Lines
    BY <2>1, ModRange, SizeAssumption DEF Lines
  <2>3. get_line(s, y) = ((IF s.history_full THEN s.history_save_line ELSE 0) + line)
                           % HistoryLines
    BY <1>1, <1>2, <1>4, SizeAssumption DEF get_line, Rows
  <2>4. (IF s.history_full THEN s.history_save_line ELSE 0) + line \in Nat
    BY <1>1, <2>1
  <2> QED
    BY <2>2, <2>3, <2>4
<1> QED
  BY <1>1, <1>2, <1>3, <1>4, SizeAssumption DEF Rows

\* Only what is shown changes.
LEMMA ShownWF ==
  ASSUME NEW s, WF(s),
         NEW sh \in [Rows -> [Zones -> Tokens \cup {Foreign}]]
  PROVE  WF([s EXCEPT !.shown = sh])
BY DEF WF, StoreOK, Permutation, VTermState, total_history_lines

LEMMA RequestUpdateWF ==
  ASSUME NoOverflow, NEW s, WF(s), NEW d, NEW act
  PROVE  WF(requestUpdate(s, d, act))
<1> DEFINE sh == [y \in Rows |-> [z \in Zones |->
                    IF act /\ z \in d[y] THEN ViewText(s, y)[z] ELSE s.shown[y][z]]]
<1>1. \A y \in Rows : ViewText(s, y) \in [Zones -> Tokens]
  BY GetLineType DEF ViewText, WF, StoreOK, VTermState, Line
<1>2. sh \in [Rows -> [Zones -> Tokens \cup {Foreign}]]
  BY <1>1 DEF WF, StoreOK, VTermState
<1>3. requestUpdate(s, d, act) = [s EXCEPT !.shown = sh]
  BY DEF requestUpdate
<1> HIDE DEF sh
<1> QED
  BY <1>2, <1>3, ShownWF

LEMMA UpdateWF ==
  ASSUME NoOverflow, NEW s, WF(s), NEW ok, NEW act
  PROVE  WF(update(s, ok, act))
<1> DEFINE dst == MoveTargets(s)
           p   == s.pending_scroll
           d   == [y \in Rows |-> IF y \in dst /\ ~ok THEN Zones ELSE s.dirty[y]]
           sh  == [y \in Rows |-> IF act /\ ok /\ y \in dst
                                  THEN s.shown[y + p] ELSE s.shown[y]]
           clean == [y \in Rows |-> {}]
           a   == [s EXCEPT !.shown = sh]
           b   == [a EXCEPT !.pending_scroll = 0]
           m   == [b EXCEPT !.dirty = clean]
<1>1. \A y \in dst : y + p \in Rows
  BY SizeAssumption DEF MoveTargets, WF, StoreOK, VTermState, Rows
<1>2. sh \in [Rows -> [Zones -> Tokens \cup {Foreign}]]
  BY <1>1 DEF WF, StoreOK, VTermState
<1>3. update(s, ok, act) = requestUpdate(m, d, act)
  BY DEF update
<1>4. clean \in [Rows -> SUBSET Zones]
  OBVIOUS
<1> HIDE DEF sh, clean, d
<1>5. WF(a)
  BY <1>2, ShownWF
<1> HIDE DEF a
<1>6. WF(b)
  BY <1>5, PendingWF
<1> HIDE DEF b
<1>7. WF(m)
  BY <1>4, <1>6, DirtyWF
<1> HIDE DEF m
<1> QED
  BY <1>3, <1>7, RequestUpdateWF

LEMMA HistoryDisplayWF ==
  ASSUME NoOverflow, NEW s, WF(s), NEW start_ \in Int, NEW ok, NEW act
  PROVE  WF(historyDisplay(s, start_, ok, act))
<1> DEFINE total == total_history_lines(s)
           want  == IF start_ < 0 THEN 0 ELSE Smaller(start_, total)
           n     == want - s.visual_start_line
           v     == [s EXCEPT !.visual_start_line = want]
           accel == accel_scroll(n, ok)
           new   == RepaintedRows(n, accel)
           sh    == [y \in Rows |-> IF act /\ y + n \in Rows /\ accel
                                    THEN s.shown[y + n] ELSE s.shown[y]]
           m     == [v EXCEPT !.shown = sh]
           d     == [y \in Rows |-> IF y \in new THEN Zones ELSE {}]
<1>1. total \in Nat /\ want \in 0 .. total
  BY SizeAssumption
     DEF WF, StoreOK, VTermState, total_history_lines, Smaller
<1>2. sh \in [Rows -> [Zones -> Tokens \cup {Foreign}]]
  BY DEF WF, StoreOK, VTermState
<1>3. historyDisplay(s, start_, ok, act) =
        IF HistoryLines = 0 \/ n = 0 THEN s ELSE requestUpdate(m, d, act)
  BY DEF historyDisplay
<1> HIDE DEF want, sh, d
<1>4. WF(v)
  <2>1. want \in Nat /\ want <= total
    BY <1>1
  <2>2. v \in VTermState
    BY <2>1 DEF WF, StoreOK, VTermState
  <2>3. total_history_lines(v) = total
    BY DEF WF, StoreOK, VTermState, total_history_lines
  <2>4. v.visual_start_line = want /\ v.linenumbers = s.linenumbers
        /\ v.history_save_line = s.history_save_line
        /\ v.history_full = s.history_full
    BY DEF WF, StoreOK, VTermState
  <2> HIDE DEF v, total
  <2> QED
    BY <2>1, <2>2, <2>3, <2>4 DEF WF, StoreOK, Permutation
<1> HIDE DEF v
<1>5. WF(m)
  BY <1>2, <1>4, ShownWF
<1> HIDE DEF m
<1> QED
  BY <1>3, <1>5, RequestUpdateWF

-----------------------------------------------------------------------------
(* Handlers *)

LEMMA MoveCursorWF ==
  ASSUME NEW s, WF(s), NEW y \in Nat
  PROVE  WF(move_cursor(s, y))
<1> DEFINE c == Smaller(y, H - 1)
<1>1. c \in Rows
  BY SizeAssumption DEF Smaller, Rows
<1>2. move_cursor(s, y) = [s EXCEPT !.cursor_y = c]
  BY DEF move_cursor
<1> HIDE DEF c
<1> QED
  BY <1>1, <1>2 DEF WF, StoreOK, Permutation, VTermState, total_history_lines

LEMMA LinefeedWF ==
  ASSUME NEW s, WF(s)
  PROVE  WF(linefeed(s))
<1>1. s.cursor_y \in Rows /\ s.scroll_top \in Rows /\ s.scroll_bot \in Rows
  BY DEF WF, StoreOK, VTermState
<1>2. s.cursor_y + 1 \in Nat
  BY <1>1 DEF Rows
<1> QED
  BY <1>1, <1>2, MoveCursorWF, ScrollRegionWF DEF linefeed

LEMMA ImagePlacedWF ==
  ASSUME NoOverflow, NEW s, WF(s), NEW n \in Nat, NEW zs \in SUBSET Zones,
         NEW v \in Tokens, NEW ok, NEW act
  PROVE  WF(ImagePlaced(s, n, zs, v, ok, act))
<1> DEFINE room == ImageRoom(s)
           mx   == s.scroll_bot - s.scroll_top + 1
           need == Smaller(n - room, mx)
           up   == IF n > room
                   THEN update(scroll_region(s, s.scroll_top, s.scroll_bot, need),
                               ok, act)
                   ELSE s
           cur  == IF n <= room THEN s.cursor_y
                   ELSE IF s.cursor_y >= s.scroll_top + need
                        THEN s.cursor_y - need ELSE s.scroll_top
           end  == Smaller(cur + n, H)
           w    == WriteArea(up, cur .. end - 1, zs, v)
<1>1. s.cursor_y \in Rows /\ s.scroll_top \in Rows /\ s.scroll_bot \in Rows
  BY DEF WF, StoreOK, VTermState
<1>2. need \in Int /\ end \in Nat
  BY <1>1, SizeAssumption DEF Rows, Smaller, ImageRoom
<1>3. ImagePlaced(s, n, zs, v, ok, act) = move_cursor(w, end)
  BY DEF ImagePlaced
<1> HIDE DEF need, end
<1>4. WF(up)
  BY <1>1, <1>2, ScrollRegionWF, UpdateWF
<1> HIDE DEF up
<1>5. WF(w)
  BY <1>4, WriteAreaWF
<1> HIDE DEF w
<1> QED
  BY <1>2, <1>3, <1>5, MoveCursorWF

\* Margins, or what reset restores, on the screen.
LEMMA MarginsWF ==
  ASSUME NEW s, WF(s), NEW t \in Rows, NEW b \in Rows
  PROVE  WF([s EXCEPT !.scroll_top = t, !.scroll_bot = b])
<1> DEFINE a == [s EXCEPT !.scroll_top = t]
<1>1. WF(a)
  BY DEF WF, StoreOK, Permutation, VTermState, total_history_lines
<1>2. [s EXCEPT !.scroll_top = t, !.scroll_bot = b] = [a EXCEPT !.scroll_bot = b]
  OBVIOUS
<1> HIDE DEF a
<1> QED
  BY <1>1, <1>2 DEF WF, StoreOK, Permutation, VTermState, total_history_lines

-----------------------------------------------------------------------------
(* The invariant *)

Inv == TypeOK /\ LinesPermutation

LEMMA InvWF == Inv <=> /\ WF(vt)
                       /\ phase \in {"idle", "input"}
                       /\ active \in BOOLEAN
BY DEF Inv, TypeOK, LinesPermutation, WF

LEMMA InitInv ==
  ASSUME NoOverflow, Init
  PROVE  Inv
<1> DEFINE ln == [y \in Rows |-> (HistoryLines + y) % Word]
           tx == [l \in Lines |-> BlankLine]
           dt == [y \in Rows |-> Zones]
           sh == [y \in Rows |-> [z \in Zones |-> Foreign]]
<1>1. \A y \in Rows : ln[y] = HistoryLines + y
  BY ModSmall, SizeAssumption, WordAssumption DEF NoOverflow, Rows
<1>2. ln \in [Rows -> HistoryLines .. HistoryLines + H - 1]
  BY <1>1, SizeAssumption DEF Rows
<1>3. \A x, y \in Rows : ln[x] = ln[y] => x = y
  BY <1>1, SizeAssumption DEF Rows
<1>4. tx \in [Lines -> Line]
  BY TokenAssumption DEF BlankLine, Line
<1>5. dt \in [Rows -> SUBSET Zones]
  OBVIOUS
<1>6. sh \in [Rows -> [Zones -> Tokens \cup {Foreign}]]
  OBVIOUS
<1>7. /\ vt = [linenumbers |-> ln, text |-> tx, dirty |-> dt,
               pending_scroll |-> 0, scroll_top |-> 0, scroll_bot |-> H - 1,
               cursor_y |-> 0, history_save_line |-> 0, history_full |-> FALSE,
               visual_start_line |-> 0, shown |-> sh]
      /\ phase = "idle" /\ active = FALSE
  BY DEF Init
<1> HIDE DEF ln, tx, dt, sh
<1>8. ln \in [Rows -> Lines]
  BY <1>2, SizeAssumption DEF Lines
<1>9. 0 \in Rows /\ H - 1 \in Rows
  BY SizeAssumption DEF Rows
<1>10. vt \in VTermState
  BY <1>4, <1>5, <1>6, <1>7, <1>8, <1>9 DEF VTermState
<1>11. StoreOK(vt)
  BY <1>7, <1>10, SizeAssumption DEF StoreOK, total_history_lines
<1>12. Permutation(vt)
  BY <1>2, <1>3, <1>7 DEF Permutation
<1> QED
  BY <1>7, <1>11, <1>12, InvWF DEF WF

\* A handler whose result is well formed keeps the invariant.
LEMMA HandleInv ==
  ASSUME Inv, NEW s, Handle(s), WF(s)
  PROVE  Inv'
BY DEF Handle, Inv, TypeOK, LinesPermutation, WF

LEMMA StepInv ==
  ASSUME NoOverflow, Inv, [Next]_vars
  PROVE  Inv'
<1> USE DEF ZoneSets
<1>0. /\ WF(vt)
      /\ vt.cursor_y \in Rows /\ vt.scroll_top \in Rows /\ vt.scroll_bot \in Rows
      /\ vt.cursor_y \in Nat /\ vt.scroll_top \in Nat /\ vt.scroll_bot \in Nat
      /\ vt.visual_start_line \in Nat
      /\ total_history_lines(vt) \in Nat
      /\ H - 1 \in Rows /\ 0 \in Rows /\ H \in Int /\ -H \in Int
  BY InvWF, SizeAssumption
     DEF WF, StoreOK, VTermState, total_history_lines, Rows
<1>1. ASSUME NEW ok, BeginInput(ok) PROVE Inv'
  <2>1. WF(vt')
    BY <1>0, <1>1, HistoryDisplayWF DEF BeginInput
  <2> QED
    BY <2>1, <1>1 DEF BeginInput, Inv, TypeOK, LinesPermutation, WF
<1>2. ASSUME NEW ok, EndInput(ok) PROVE Inv'
  <2>1. WF(vt')
    BY <1>0, <1>2, UpdateWF DEF EndInput
  <2> QED
    BY <2>1, <1>2 DEF EndInput, Inv, TypeOK, LinesPermutation, WF
<1>3. CASE lf
  BY <1>0, <1>3, LinefeedWF, HandleInv DEF lf
<1>4. CASE index_up
  <2>1. vt.cursor_y > vt.scroll_top => vt.cursor_y - 1 \in Nat
    BY <1>0
  <2>2. CASE vt.cursor_y > vt.scroll_top
    BY <1>0, <1>4, <2>1, <2>2, MoveCursorWF, HandleInv DEF index_up
  <2>3. CASE ~(vt.cursor_y > vt.scroll_top)
    BY <1>0, <1>4, <2>3, ScrollRegionWF, HandleInv DEF index_up
  <2> QED
    BY <2>2, <2>3
<1>5. ASSUME NEW zs \in ZoneSets, NEW v \in Tokens, NEW wrap \in BOOLEAN,
             do_normal_char(zs, v, wrap)
      PROVE  Inv'
  <2> DEFINE s == IF wrap THEN linefeed(vt) ELSE vt
  <2>1. WF(s)
    BY <1>0, LinefeedWF
  <2>2. Handle(WriteArea(s, {s.cursor_y}, zs, v))
    BY <1>5 DEF do_normal_char
  <2> HIDE DEF s
  <2> QED
    BY <2>1, <2>2, WriteAreaWF, HandleInv
<1>6. ASSUME NEW zs \in ZoneSets, NEW v \in Tokens, wide_char_wraps(zs, v)
      PROVE  Inv'
  <2> DEFINE last == {z \in Zones : \A x \in Zones : x <= z}
             t == Fill(vt, {vt.linenumbers[vt.cursor_y]}, last, Blank)
             b == [vt EXCEPT !.text = t]
             s == linefeed(b)
  <2>1. t \in [Lines -> Line]
    BY <1>0, FillType, TokenAssumption
  <2>2. Handle(WriteArea(s, {s.cursor_y}, zs, v))
    BY <1>6 DEF wide_char_wraps
  <2> HIDE DEF t
  <2>3. WF(b)
    BY <1>0, <2>1 DEF WF, StoreOK, Permutation, VTermState, total_history_lines
  <2> HIDE DEF b
  <2>4. WF(s)
    BY <2>3, LinefeedWF
  <2> HIDE DEF s
  <2> QED
    BY <2>2, <2>4, WriteAreaWF, HandleInv
<1>7. ASSUME NEW zs \in ZoneSets, NEW v \in Tokens, edit_row(zs, v)
      PROVE  Inv'
  BY <1>0, <1>7, WriteAreaWF, HandleInv DEF edit_row
<1>8. ASSUME NEW n \in 1 .. H, insert_line(n) \/ delete_line(n)
      PROVE  Inv'
  <2>1. WF(clear_area(vt, vt.cursor_y .. vt.scroll_bot, Zones))
    BY <1>0, WriteAreaWF, TokenAssumption DEF clear_area
  <2>2. n \in Int /\ -n \in Int
    OBVIOUS
  <2>3. WF(scroll_region(vt, vt.cursor_y, vt.scroll_bot, n))
    BY <1>0, <2>2, ScrollRegionWF
  <2>4. WF(scroll_region(vt, vt.cursor_y, vt.scroll_bot, -n))
    BY <1>0, <2>2, ScrollRegionWF
  <2> QED
    BY <1>8, <2>1, <2>3, <2>4, HandleInv DEF insert_line, delete_line
<1>9. ASSUME NEW param \in 0 .. 2, NEW zs \in ZoneSets, erase_display(param, zs)
      PROVE  Inv'
  <2> DEFINE part == clear_area(vt, {vt.cursor_y}, zs)
             s == IF param = 2 THEN vt ELSE part
  <2>1. WF(s)
    BY <1>0, WriteAreaWF, TokenAssumption DEF clear_area
  <2> HIDE DEF s
  <2>2. \A ys : WF(clear_area(s, ys, Zones))
    BY <2>1, WriteAreaWF, TokenAssumption DEF clear_area
  <2>3. \E ys : Handle(clear_area(s, ys, Zones))
    BY <1>9 DEF erase_display, s
  <2> QED
    BY <2>2, <2>3, HandleInv
<1>10. ASSUME NEW v \in Tokens, screen_align(v) PROVE Inv'
  BY <1>0, <1>10, WriteAreaWF, HandleInv DEF screen_align
<1>11. ASSUME NEW y \in Rows, cursor_position(y) PROVE Inv'
  BY <1>0, <1>11, MoveCursorWF, HandleInv DEF cursor_position, Rows
<1>12. ASSUME NEW t \in Rows, NEW b \in Rows, NEW ok, set_margins(t, b, ok)
       PROVE  Inv'
  <2> DEFINE s == IF vt.pending_scroll # 0 THEN update(vt, ok, active) ELSE vt
             m == [s EXCEPT !.scroll_top = t, !.scroll_bot = b]
             d == IF m.cursor_y < t THEN move_cursor(m, t) ELSE m
             e == IF d.cursor_y > b THEN move_cursor(d, b) ELSE d
  <2>0. t \in Nat /\ b \in Nat
    BY DEF Rows
  <2>1. Handle(e)
    BY <1>12 DEF set_margins
  <2>2. WF(s)
    BY <1>0, UpdateWF
  <2> HIDE DEF s
  <2>3. WF(m)
    BY <2>2, MarginsWF
  <2> HIDE DEF m
  <2>4. WF(d)
    BY <2>0, <2>3, MoveCursorWF
  <2> HIDE DEF d
  <2>5. WF(e)
    BY <2>0, <2>4, MoveCursorWF
  <2> HIDE DEF e
  <2> QED
    BY <2>1, <2>5, HandleInv
<1>13. CASE reset
  <2> DEFINE a == [vt EXCEPT !.pending_scroll = 0]
             b == [a EXCEPT !.scroll_top = 0, !.scroll_bot = H - 1]
             c == [b EXCEPT !.cursor_y = 0]
  <2>1. Handle(clear_area(c, Rows, Zones))
    BY <1>13 DEF reset
  <2>2. WF(a)
    BY <1>0, PendingWF
  <2> HIDE DEF a
  <2>3. WF(b)
    BY <1>0, <2>2, MarginsWF
  <2> HIDE DEF b
  <2>4. WF(c)
    BY <1>0, <2>3 DEF WF, StoreOK, Permutation, VTermState, total_history_lines
  <2> HIDE DEF c
  <2> QED
    BY <2>1, <2>4, WriteAreaWF, TokenAssumption, HandleInv DEF clear_area
<1>14. ASSUME NEW n \in 1 .. MaxImage, NEW zs \in ZoneSets, NEW v \in Tokens,
              NEW ok, sixel_copy_to_cells(n, zs, v, ok)
       PROVE  Inv'
  BY <1>0, <1>14, ImagePlacedWF, SizeAssumption, HandleInv
     DEF sixel_copy_to_cells
<1>15. ASSUME NEW down \in BOOLEAN, NEW ok, historyScroll(down, ok) PROVE Inv'
  <2>1. vt.visual_start_line + (IF down THEN H ELSE -H) \in Int
    BY <1>0
  <2>2. WF(vt')
    BY <1>0, <1>15, <2>1, HistoryDisplayWF DEF historyScroll
  <2> QED
    BY <2>2, <1>15 DEF historyScroll, Inv, TypeOK, LinesPermutation, WF
<1>16. CASE Activate
  <2>1. WF(vt')
    BY <1>0, <1>16, RequestUpdateWF DEF Activate
  <2> QED
    BY <2>1, <1>16 DEF Activate, Inv, TypeOK, LinesPermutation, WF
<1>17. CASE Deactivate
  <2> DEFINE sh == [y \in Rows |-> [z \in Zones |-> Foreign]]
  <2>1. sh \in [Rows -> [Zones -> Tokens \cup {Foreign}]]
    OBVIOUS
  <2>2. vt' = [vt EXCEPT !.shown = sh]
    BY <1>17 DEF Deactivate
  <2> HIDE DEF sh
  <2>3. WF(vt')
    BY <1>0, <2>1, <2>2, ShownWF
  <2> QED
    BY <2>3, <1>17 DEF Deactivate, Inv, TypeOK, LinesPermutation, WF
<1>18. CASE UNCHANGED vars
  BY <1>18 DEF vars, Inv, TypeOK, LinesPermutation
<1> QED
  BY <1>1, <1>2, <1>3, <1>4, <1>5, <1>6, <1>7, <1>8, <1>9, <1>10, <1>11,
     <1>12, <1>13, <1>14, <1>15, <1>16, <1>17, <1>18 DEF Next

\* The store stays well typed: cursor, margins, ring position and view never
\* leave their ranges, for every size of screen, history and image.
THEOREM TypeCorrect ==
  ASSUME NoOverflow
  PROVE  Spec => []TypeOK
<1>1. Init => Inv
  BY InitInv
<1>2. Inv /\ [Next]_vars => Inv'
  BY StepInv
<1>3. Inv => TypeOK
  BY DEF Inv
<1> QED
  BY <1>1, <1>2, <1>3, PTL DEF Spec

\* Two rows never share a stored line and no row reaches into the scroll-back
\* ring, provided that history and screen together fit in a u16.
THEOREM RowsStayDistinct ==
  ASSUME NoOverflow
  PROVE  Spec => []LinesPermutation
<1>1. Init => Inv
  BY InitInv
<1>2. Inv /\ [Next]_vars => Inv'
  BY StepInv
<1>3. Inv => LinesPermutation
  BY DEF Inv
<1> QED
  BY <1>1, <1>2, <1>3, PTL DEF Spec

-----------------------------------------------------------------------------
(* The screen: what it shows of the lines *)

\* The zones that keep their marks: all but the last when a double width
\* character may blank the last column without a mark.
Exact == IF WideChars THEN {z \in Zones : \E x \in Zones : x > z} ELSE Zones

\* The view is at the end of the history.
Bottom(s) == s.visual_start_line = total_history_lines(s)

Due(s) ==
  \A y \in Rows : \A z \in Exact \ s.dirty[y] :
    Expected(s, y)[z] = RowText(s, y)[z]

Marked(s) ==
  (s.pending_scroll # 0 /\ s.scroll_top < s.scroll_bot) =>
    \A y \in (s.scroll_top .. s.scroll_bot) \ MoveTargets(s) : s.dirty[y] = Zones

Synced(s) == Due(s) /\ Marked(s)

\* The screen shows the view.
Fresh(s) == \A y \in Rows, z \in Exact : s.shown[y][z] = ViewText(s, y)[z]

-----------------------------------------------------------------------------
(* Reading and writing the store *)

\* The screen fields of t are those of s.
SameScreen(t, s) ==
  /\ t.dirty = s.dirty /\ t.shown = s.shown
  /\ t.pending_scroll = s.pending_scroll
  /\ t.scroll_top = s.scroll_top /\ t.scroll_bot = s.scroll_bot

SameText(t, s) == \A y \in Rows : RowText(t, y) = RowText(s, y)

SameRing(t, s) ==
  /\ t.history_save_line = s.history_save_line
  /\ t.history_full = s.history_full
  /\ t.visual_start_line = s.visual_start_line

\* The scroll-back lines of t are those of s.
SameHistory(t, s) ==
  /\ t.history_save_line = s.history_save_line
  /\ t.history_full = s.history_full
  /\ \A l \in Lines : l < HistoryLines => t.text[l] = s.text[l]

LEMMA RingBottom ==
  ASSUME NEW s, NEW t, SameRing(t, s), Bottom(s)
  PROVE  Bottom(t)
BY DEF SameRing, Bottom, total_history_lines

\* Without a postponed scroll, or in a region of one row, no pixels move.
LEMMA NothingToMove ==
  ASSUME NEW s, WF(s), s.pending_scroll = 0 \/ s.scroll_top >= s.scroll_bot
  PROVE  MoveTargets(s) = {}
<1>1. /\ s.pending_scroll \in Int
      /\ s.scroll_top \in Int /\ s.scroll_bot \in Int
  BY DEF WF, StoreOK, VTermState, Rows
<1>2. ~(/\ s.pending_scroll # 0
        /\ s.pending_scroll < s.scroll_bot - s.scroll_top + 1
        /\ -s.pending_scroll < s.scroll_bot - s.scroll_top + 1)
  BY <1>1
<1> QED
  BY <1>2 DEF MoveTargets

LEMMA SyncedSame ==
  ASSUME NEW s, NEW t, SameScreen(t, s), SameText(t, s), Synced(s)
  PROVE  Synced(t)
BY DEF SameScreen, SameText, Synced, Due, Marked, Expected, MoveTargets

\* Row numbers are lines behind the ring, and rows do not share them.
LEMMA RowLines ==
  ASSUME NEW s, WF(s)
  PROVE  /\ \A y \in Rows : /\ s.linenumbers[y] \in Lines
                            /\ s.linenumbers[y] >= HistoryLines
         /\ \A x, y \in Rows : s.linenumbers[x] = s.linenumbers[y] => x = y
         /\ \A y \in Rows : RowText(s, y) \in [Zones -> Tokens]
BY SizeAssumption DEF WF, StoreOK, Permutation, VTermState, Lines, RowText, Line

\* At the end of the history the view is the rows.
LEMMA ViewIsRow ==
  ASSUME NoOverflow, NEW s, WF(s), Bottom(s), NEW y \in Rows
  PROVE  ViewText(s, y) = RowText(s, y)
<1> DEFINE total == total_history_lines(s)
           line  == (s.visual_start_line + y) % Word
<1>1. total \in 0 .. HistoryLines /\ s.visual_start_line = total
  BY SizeAssumption DEF WF, StoreOK, VTermState, total_history_lines, Bottom
<1>2. line = total + y
  BY <1>1, ModSmall, SizeAssumption, WordAssumption DEF NoOverflow, Rows
<1>3. line >= total /\ line - total = y
  BY <1>1, <1>2 DEF Rows
<1>4. get_line(s, y) = s.linenumbers[y]
  BY <1>3 DEF get_line
<1> QED
  BY <1>4 DEF ViewText, RowText

\* t is s with v written to the zones zs of the rows ys, and these marked.
Written(t, s, ys, zs, v) ==
  /\ t.linenumbers = s.linenumbers /\ t.shown = s.shown
  /\ t.pending_scroll = s.pending_scroll /\ t.cursor_y = s.cursor_y
  /\ t.scroll_top = s.scroll_top /\ t.scroll_bot = s.scroll_bot
  /\ SameRing(t, s)
  /\ \A y \in Rows : t.dirty[y] = IF y \in ys THEN s.dirty[y] \cup zs ELSE s.dirty[y]
  /\ \A y \in Rows \ ys : RowText(t, y) = RowText(s, y)
  /\ \A y \in ys : \A z \in Zones :
       RowText(t, y)[z] = IF z \in zs THEN v ELSE RowText(s, y)[z]
  /\ \A l \in Lines : l < HistoryLines => t.text[l] = s.text[l]

LEMMA WriteAreaFields ==
  ASSUME NEW s, WF(s), NEW ys \in SUBSET Rows, NEW zs \in SUBSET Zones,
         NEW v \in Tokens
  PROVE  Written(WriteArea(s, ys, zs, v), s, ys, zs, v)
<1> DEFINE d == [y \in Rows |-> IF y \in ys THEN s.dirty[y] \cup zs ELSE s.dirty[y]]
           tx == Fill(s, {s.linenumbers[y] : y \in ys}, zs, v)
           c == [s EXCEPT !.dirty = d]
           t == WriteArea(s, ys, zs, v)
<1>1. t = [c EXCEPT !.text = tx]
  BY DEF WriteArea, changed_line
<1>2. s \in VTermState
  BY DEF WF, StoreOK
<1>3. \A l \in Lines : tx[l] = IF l \in {s.linenumbers[y] : y \in ys}
                               THEN [z \in Zones |-> IF z \in zs THEN v ELSE s.text[l][z]]
                               ELSE s.text[l]
  BY DEF Fill
<1> HIDE DEF d, tx, t
<1>4. /\ c.linenumbers = s.linenumbers /\ c.shown = s.shown
      /\ c.pending_scroll = s.pending_scroll /\ c.cursor_y = s.cursor_y
      /\ c.scroll_top = s.scroll_top /\ c.scroll_bot = s.scroll_bot
      /\ SameRing(c, s) /\ c.dirty = d
      /\ DOMAIN c = DOMAIN s /\ "text" \in DOMAIN c
  BY <1>2 DEF VTermState, SameRing
<1> HIDE DEF c
<1>5. /\ t.linenumbers = s.linenumbers /\ t.shown = s.shown
      /\ t.pending_scroll = s.pending_scroll /\ t.cursor_y = s.cursor_y
      /\ t.scroll_top = s.scroll_top /\ t.scroll_bot = s.scroll_bot
      /\ SameRing(t, s) /\ t.dirty = d /\ t.text = tx
  BY <1>1, <1>4 DEF SameRing
<1>6. ASSUME NEW y \in Rows \ ys PROVE RowText(t, y) = RowText(s, y)
  <2>1. s.linenumbers[y] \notin {s.linenumbers[x] : x \in ys}
    BY RowLines
  <2> QED
    BY <1>3, <1>5, <2>1, RowLines DEF RowText
<1>7. ASSUME NEW y \in ys, NEW z \in Zones
      PROVE  RowText(t, y)[z] = IF z \in zs THEN v ELSE RowText(s, y)[z]
  <2>1. s.linenumbers[y] \in {s.linenumbers[x] : x \in ys} /\ y \in Rows
    OBVIOUS
  <2>2. s.linenumbers[y] \in Lines
    BY <2>1, RowLines
  <2>3. tx[s.linenumbers[y]] =
          [x \in Zones |-> IF x \in zs THEN v ELSE s.text[s.linenumbers[y]][x]]
    BY <1>3, <2>1, <2>2
  <2> QED
    BY <1>5, <2>3 DEF RowText
<1>8. ASSUME NEW l \in Lines, l < HistoryLines PROVE t.text[l] = s.text[l]
  <2>1. \A x \in ys : x \in Rows /\ s.linenumbers[x] >= HistoryLines
    BY RowLines
  <2>2. l \notin {s.linenumbers[x] : x \in ys}
    BY <1>8, <2>1, RowLines, SizeAssumption DEF Lines
  <2> QED
    BY <1>3, <1>5, <2>2
<1>9. \A y \in Rows : t.dirty[y] = IF y \in ys THEN s.dirty[y] \cup zs ELSE s.dirty[y]
  BY <1>5 DEF d
<1> QED
  BY <1>5, <1>6, <1>7, <1>8, <1>9 DEF Written, t

LEMMA WriteAreaPending ==
  ASSUME NEW s, WF(s), NEW ys \in SUBSET Rows, NEW zs \in SUBSET Zones,
         NEW v \in Tokens
  PROVE  WriteArea(s, ys, zs, v).pending_scroll = s.pending_scroll
<1> DEFINE t == WriteArea(s, ys, zs, v)
<1>1. Written(t, s, ys, zs, v)
  BY WriteAreaFields
<1> HIDE DEF t
<1>2. t.pending_scroll = s.pending_scroll
  BY <1>1 DEF Written
<1> QED
  BY <1>2 DEF t

LEMMA WriteAreaSynced ==
  ASSUME NEW s, WF(s), Synced(s), NEW ys \in SUBSET Rows, NEW zs \in SUBSET Zones,
         NEW v \in Tokens
  PROVE  Synced(WriteArea(s, ys, zs, v))
<1> DEFINE t == WriteArea(s, ys, zs, v)
<1>0. Written(t, s, ys, zs, v)
  BY WriteAreaFields
<1> HIDE DEF t
<1>2. MoveTargets(t) = MoveTargets(s)
  BY <1>0 DEF MoveTargets, Written
<1>3. \A y \in Rows : Expected(t, y) = Expected(s, y)
  BY <1>0, <1>2 DEF Expected, Written
<1>4. Due(t)
  <2> SUFFICES ASSUME NEW y \in Rows, NEW z \in Exact, z \notin t.dirty[y]
               PROVE  Expected(t, y)[z] = RowText(t, y)[z]
    BY DEF Due
  <2>1. z \in Zones
    BY DEF Exact
  <2>2. z \notin s.dirty[y] /\ (y \in ys => z \notin zs)
    BY <1>0 DEF Written
  <2>3. Expected(s, y)[z] = RowText(s, y)[z]
    BY <2>2 DEF Synced, Due
  <2> QED
    BY <1>0, <1>3, <2>1, <2>2, <2>3 DEF Written
<1>5. Marked(t)
  <2>1. \A y \in s.scroll_top .. s.scroll_bot : y \in Rows
    BY SizeAssumption DEF WF, StoreOK, VTermState, Rows
  <2>2. \A y \in Rows : s.dirty[y] = Zones => t.dirty[y] = Zones
    BY <1>0 DEF Written
  <2> QED
    BY <1>0, <1>2, <2>1, <2>2 DEF Synced, Marked, Written
<1> QED
  BY <1>4, <1>5 DEF Synced, t

-----------------------------------------------------------------------------
(* Scrolling *)

LEMMA RingAdvanceFields ==
  ASSUME NEW s \in VTermState, NEW num \in Int
  PROVE  LET t == RingAdvance(s, num)
         IN  /\ SameScreen(t, s) /\ t.linenumbers = s.linenumbers
             /\ t.text = s.text /\ t.cursor_y = s.cursor_y
             /\ t.history_full = (s.history_full \/ s.history_save_line + num >= HistoryLines)
             /\ t.history_save_line = (s.history_save_line + num) % HistoryLines
             /\ Bottom(t)
<1> DEFINE next == (s.history_save_line + num) % HistoryLines
           full == s.history_full \/ s.history_save_line + num >= HistoryLines
           view == IF full THEN HistoryLines ELSE next
           a == [s EXCEPT !.history_save_line = next]
           b == [a EXCEPT !.history_full = full]
           t == [b EXCEPT !.visual_start_line = view]
<1>1. RingAdvance(s, num) = t
  BY DEF RingAdvance
<1> HIDE DEF next, full, view
<1>2. /\ SameScreen(a, s) /\ a.linenumbers = s.linenumbers
      /\ a.text = s.text /\ a.cursor_y = s.cursor_y
      /\ a.history_save_line = next /\ DOMAIN a = DOMAIN s
      /\ DOMAIN s = {"linenumbers", "text", "dirty", "pending_scroll", "scroll_top",
                     "scroll_bot", "cursor_y", "history_save_line", "history_full",
                     "visual_start_line", "shown"}
  BY DEF VTermState, SameScreen
<1> HIDE DEF a
<1>3. /\ SameScreen(b, s) /\ b.linenumbers = s.linenumbers
      /\ b.text = s.text /\ b.cursor_y = s.cursor_y
      /\ b.history_save_line = next /\ b.history_full = full /\ DOMAIN b = DOMAIN s
  BY <1>2 DEF SameScreen
<1> HIDE DEF b
<1>4. /\ SameScreen(t, s) /\ t.linenumbers = s.linenumbers
      /\ t.text = s.text /\ t.cursor_y = s.cursor_y
      /\ t.history_save_line = next /\ t.history_full = full
      /\ t.visual_start_line = view
  BY <1>2, <1>3 DEF SameScreen
<1> HIDE DEF t
<1>5. Bottom(t)
  BY <1>4 DEF Bottom, total_history_lines, view
<1> QED
  BY <1>1, <1>4, <1>5 DEF full, next

\* Copying rows to the ring leaves the rows and the screen alone.
LEMMA HistoryScrollFields ==
  ASSUME NEW s, WF(s), NEW num \in 0 .. H
  PROVE  LET t == history_scroll(s, num)
         IN  /\ SameScreen(t, s) /\ t.linenumbers = s.linenumbers
             /\ t.cursor_y = s.cursor_y /\ SameText(t, s)
             /\ Bottom(s) => Bottom(t)
<1>1. CASE HistoryLines = 0
  BY <1>1 DEF history_scroll, SameScreen, SameText
<1>2. CASE HistoryLines # 0
  <2> DEFINE slot(i) == (s.history_save_line + i) % HistoryLines
             kept(l) == {i \in 0 .. num - 1 :
                           num - i <= HistoryLines /\ slot(i) = l}
             copied == [l \in Lines |->
                          IF kept(l) = {} THEN s.text[l]
                          ELSE RowText(s, CHOOSE i \in kept(l) : TRUE)]
             c == [s EXCEPT !.text = copied]
             t == history_scroll(s, num)
  <2>1. t = RingAdvance(c, num)
    BY <1>2 DEF history_scroll
  <2>2. \A i \in 0 .. num - 1 : slot(i) < HistoryLines
    BY <1>2, ModRange, SizeAssumption DEF WF, StoreOK, VTermState
  <2>3. \A l \in Lines : l >= HistoryLines => kept(l) = {}
    BY <2>2, SizeAssumption DEF Lines
  <2>4. \A l \in Lines : l >= HistoryLines => copied[l] = s.text[l]
    BY <2>3
  <2>5. copied \in [Lines -> Line]
    <3>1. \A i \in Rows : RowText(s, i) \in Line
      BY RowLines DEF Line
    <3>2. \A l \in Lines : kept(l) # {} => (CHOOSE i \in kept(l) : TRUE) \in Rows
      BY SizeAssumption DEF Rows
    <3> QED
      BY <3>1, <3>2 DEF WF, StoreOK, VTermState
  <2> HIDE DEF copied
  <2>6. /\ SameScreen(c, s) /\ c.linenumbers = s.linenumbers /\ c.text = copied
        /\ c.cursor_y = s.cursor_y /\ c \in VTermState
    BY <2>5 DEF WF, StoreOK, VTermState, SameScreen
  <2> HIDE DEF c
  <2>7. /\ SameScreen(t, c) /\ t.linenumbers = c.linenumbers
        /\ t.text = c.text /\ t.cursor_y = c.cursor_y /\ Bottom(t)
    <3>1. num \in Int
      OBVIOUS
    <3> QED
      BY <2>1, <2>6, <3>1, RingAdvanceFields, Zenon
  <2> HIDE DEF t
  <2>8. SameText(t, s)
    BY <2>4, <2>6, <2>7, RowLines DEF SameText, RowText
  <2>9. SameScreen(t, s)
    BY <2>6, <2>7 DEF SameScreen
  <2> QED
    BY <2>6, <2>7, <2>8, <2>9 DEF t
<1> QED
  BY <1>1, <1>2

\* scroll_region, once n has been limited to the size of the region.
Clamped(n, mx) == IF n > mx THEN mx ELSE IF -n > mx THEN -mx ELSE n

ScrolledBy(s, start, end, num) ==
  LET h     == IF start = 0 /\ num > 0 THEN history_scroll(s, num) ELSE s
      fast  == start = s.scroll_top /\ end = s.scroll_bot
      take  == [y \in Rows |-> IF y \in start .. end
                               THEN takey(start, end, num, y) ELSE y]
      clr   == {y \in start .. end : y + num \notin start .. end}
      moved == [h EXCEPT
                  !.pending_scroll = IF fast THEN @ + num ELSE @,
                  !.linenumbers = [y \in Rows |-> s.linenumbers[take[y]]],
                  !.dirty = [y \in Rows |->
                               IF y \in start .. end /\ (~fast \/ y \in clr)
                               THEN Zones ELSE s.dirty[take[y]]]]
  IN  IF Absolute(num) < end - start + 1
      THEN clear_area(moved, clr, Zones)
      ELSE [h EXCEPT !.pending_scroll = IF fast THEN @ + num ELSE @]

LEMMA ScrollRegionClamps ==
  ASSUME NEW s, NEW start, NEW end, NEW n, ~(n = 0 \/ start > end)
  PROVE  scroll_region(s, start, end, n) =
           ScrolledBy(s, start, end, Clamped(n, end - start + 1))
BY DEF scroll_region, ScrolledBy, Clamped

LEMMA AbsoluteMinus ==
  ASSUME NEW n \in Nat
  PROVE  Absolute(-n) = n
BY DEF Absolute

\* A scroll of start..end that moves lines: t's rows are s's, n further down.
Shifted(t, s, start, end, n) ==
  LET fast == start = s.scroll_top /\ end = s.scroll_bot
  IN  /\ t.shown = s.shown
      /\ t.scroll_top = s.scroll_top /\ t.scroll_bot = s.scroll_bot
      /\ t.cursor_y = s.cursor_y
      /\ t.pending_scroll = IF fast THEN s.pending_scroll + n ELSE s.pending_scroll
      /\ \A y \in Rows \ (start .. end) :
           RowText(t, y) = RowText(s, y) /\ t.dirty[y] = s.dirty[y]
      /\ \A y \in start .. end :
           IF y + n \in start .. end
           THEN /\ RowText(t, y) = RowText(s, y + n)
                /\ t.dirty[y] = IF fast THEN s.dirty[y + n] ELSE Zones
           ELSE /\ RowText(t, y) = BlankLine
                /\ t.dirty[y] = Zones
      /\ Bottom(s) => Bottom(t)
      /\ SameHistory(t, IF start = 0 /\ n > 0 THEN history_scroll(s, n) ELSE s)

LEMMA ScrollRegionShifts ==
  ASSUME NEW s, WF(s), NEW start \in Rows, NEW end \in Rows, NEW n \in Int,
         n # 0, Absolute(n) < end - start + 1
  PROVE  Shifted(scroll_region(s, start, end, n), s, start, end, n)
<1> DEFINE h    == IF start = 0 /\ n > 0 THEN history_scroll(s, n) ELSE s
           fast == start = s.scroll_top /\ end = s.scroll_bot
           take == [y \in Rows |-> IF y \in start .. end
                                   THEN takey(start, end, n, y) ELSE y]
           clr  == {y \in start .. end : y + n \notin start .. end}
           p    == IF fast THEN h.pending_scroll + n ELSE h.pending_scroll
           ln   == [y \in Rows |-> s.linenumbers[take[y]]]
           d    == [y \in Rows |-> IF y \in start .. end /\ (~fast \/ y \in clr)
                                   THEN Zones ELSE s.dirty[take[y]]]
           a    == [h EXCEPT !.pending_scroll = p]
           b    == [a EXCEPT !.linenumbers = ln]
           m    == [b EXCEPT !.dirty = d]
           t    == scroll_region(s, start, end, n)
<1>0. /\ start .. end \subseteq Rows /\ start \in Int /\ end \in Int
      /\ -n <= end - start /\ n <= end - start /\ start <= end
      /\ n > 0 => n \in 0 .. H
  BY SizeAssumption DEF Absolute, Rows
<1>1. t = clear_area(m, clr, Zones)
  <2>1. t = ScrolledBy(s, start, end, Clamped(n, end - start + 1))
    BY <1>0, ScrollRegionClamps
  <2>2. Clamped(n, end - start + 1) = n
    BY <1>0 DEF Clamped
  <2>3. t = ScrolledBy(s, start, end, n)
    BY <2>1, <2>2
  <2> QED
    BY <2>3 DEF ScrolledBy
<1>2. WF(h)
  BY <1>0, HistoryScrollWF
<1>3. /\ SameScreen(h, s) /\ h.linenumbers = s.linenumbers
      /\ h.cursor_y = s.cursor_y /\ SameText(h, s)
      /\ Bottom(s) => Bottom(h)
  BY <1>0, HistoryScrollFields DEF SameScreen, SameText
<1>4. p \in Int
  BY <1>2 DEF WF, StoreOK, VTermState
<1>5. \A y \in start .. end : takey(start, end, n, y) \in start .. end
  BY <1>0, TakeyInRegion DEF Rows
<1>6. take \in [Rows -> Rows]
  BY <1>0, <1>5
<1>7. ASSUME NEW x \in Rows, NEW y \in Rows, take[x] = take[y] PROVE x = y
  <2>1. CASE x \in start .. end /\ y \in start .. end
    BY <2>1, <1>0, <1>7, TakeyInjective DEF Rows
  <2>2. CASE ~(x \in start .. end /\ y \in start .. end)
    BY <2>2, <1>5, <1>7
  <2> QED
    BY <2>1, <2>2
<1>8. \A y \in start .. end : y + n \in start .. end => take[y] = y + n
  BY <1>0 DEF takey
<1>9. \A y \in Rows \ (start .. end) : take[y] = y
  OBVIOUS
<1> HIDE DEF take, h
<1>10. ln \in [Rows -> HistoryLines .. HistoryLines + H - 1]
  BY <1>6 DEF WF, Permutation
<1>11. \A x, y \in Rows : ln[x] = ln[y] => x = y
  BY <1>6, <1>7 DEF WF, Permutation
<1>12. d \in [Rows -> SUBSET Zones]
  BY <1>6 DEF WF, StoreOK, VTermState
<1>13. /\ \A y \in Rows \ (start .. end) :
            ln[y] = s.linenumbers[y] /\ d[y] = s.dirty[y]
       /\ \A y \in start .. end : y + n \in start .. end =>
            ln[y] = s.linenumbers[y + n] /\ (fast => d[y] = s.dirty[y + n])
       /\ \A y \in clr : d[y] = Zones
       /\ ~fast => \A y \in start .. end : d[y] = Zones
  BY <1>0, <1>8, <1>9
<1>14. m = [h EXCEPT !.pending_scroll = p, !.linenumbers = ln, !.dirty = d]
  OBVIOUS
<1> HIDE DEF ln, d, p
<1>15. WF(m)
  BY <1>2, <1>4, <1>10, <1>11, <1>12, <1>14, RenumberWF
<1>16. /\ m.shown = h.shown /\ m.scroll_top = h.scroll_top /\ m.scroll_bot = h.scroll_bot
       /\ m.cursor_y = h.cursor_y /\ m.pending_scroll = p
       /\ m.linenumbers = ln /\ m.dirty = d /\ m.text = h.text
       /\ SameRing(m, h)
  BY <1>2 DEF WF, StoreOK, VTermState, SameRing
<1> HIDE DEF m
<1>17. Written(t, m, clr, Zones, Blank)
  <2>1. clr \in SUBSET Rows /\ Zones \in SUBSET Zones
    BY <1>0
  <2> QED
    BY <1>1, <1>15, <2>1, WriteAreaFields, TokenAssumption DEF clear_area
<1> HIDE DEF t
<1>18. \A y \in start .. end : y + n \in start .. end =>
         RowText(m, y) = RowText(s, y + n)
  BY <1>0, <1>3, <1>13, <1>16 DEF RowText, SameText
<1>19. \A y \in Rows \ (start .. end) : RowText(m, y) = RowText(s, y)
  BY <1>3, <1>13, <1>16 DEF RowText, SameText
<1>20. \A y \in clr : RowText(t, y) = BlankLine
  <2>1. \A y \in clr : RowText(t, y) \in [Zones -> Tokens]
    <3>1. WF(t)
      BY <1>1, <1>15, WriteAreaWF, TokenAssumption DEF clear_area, t
    <3> QED
      BY <1>0, <3>1, RowLines
  <2> QED
    BY <1>17, <2>1 DEF Written, BlankLine
<1>21. Bottom(s) => Bottom(t)
  BY <1>3, <1>16, <1>17, RingBottom DEF Written
<1>22. t.pending_scroll = IF fast THEN s.pending_scroll + n ELSE s.pending_scroll
  BY <1>3, <1>16, <1>17 DEF Written, p, SameScreen
<1>23. /\ t.shown = s.shown /\ t.scroll_top = s.scroll_top
       /\ t.scroll_bot = s.scroll_bot /\ t.cursor_y = s.cursor_y
  BY <1>3, <1>16, <1>17 DEF Written, SameScreen
<1>24. ASSUME NEW y \in Rows \ (start .. end)
       PROVE  RowText(t, y) = RowText(s, y) /\ t.dirty[y] = s.dirty[y]
  BY <1>13, <1>16, <1>17, <1>19 DEF Written
<1>25. ASSUME NEW y \in start .. end
       PROVE  IF y + n \in start .. end
              THEN /\ RowText(t, y) = RowText(s, y + n)
                   /\ t.dirty[y] = IF fast THEN s.dirty[y + n] ELSE Zones
              ELSE /\ RowText(t, y) = BlankLine
                   /\ t.dirty[y] = Zones
  <2>1. CASE y + n \in start .. end
    BY <2>1, <1>0, <1>13, <1>16, <1>17, <1>18 DEF Written
  <2>2. CASE y + n \notin start .. end
    BY <2>2, <1>0, <1>13, <1>16, <1>17, <1>20 DEF Written
  <2> QED
    BY <2>1, <2>2
<1>26. SameHistory(t, h)
  BY <1>16, <1>17 DEF Written, SameRing, SameHistory
<1> QED
  BY <1>21, <1>22, <1>23, <1>24, <1>25, <1>26 DEF Shifted, t, h

\* A scroll by the whole region counts as postponed and moves nothing.
LEMMA ScrollRegionWhole ==
  ASSUME NEW s, WF(s), NEW start \in Rows, NEW end \in Rows, NEW n \in Int,
         start <= end, Absolute(n) >= end - start + 1
  PROVE  LET t  == scroll_region(s, start, end, n)
             mx == end - start + 1
             num == IF n > 0 THEN mx ELSE -mx
         IN  /\ t.shown = s.shown /\ t.dirty = s.dirty /\ SameText(t, s)
             /\ t.scroll_top = s.scroll_top /\ t.scroll_bot = s.scroll_bot
             /\ t.cursor_y = s.cursor_y
             /\ t.pending_scroll = IF start = s.scroll_top /\ end = s.scroll_bot
                                   THEN s.pending_scroll + num ELSE s.pending_scroll
             /\ Bottom(s) => Bottom(t)
             /\ SameHistory(t, IF start = 0 /\ n > 0 THEN history_scroll(s, mx) ELSE s)
<1> DEFINE mx   == end - start + 1
           num  == Clamped(n, mx)
           sign == IF n > 0 THEN mx ELSE -mx
           h    == IF start = 0 /\ num > 0 THEN history_scroll(s, num) ELSE s
           fast == start = s.scroll_top /\ end = s.scroll_bot
           p    == IF fast THEN h.pending_scroll + num ELSE h.pending_scroll
           t    == scroll_region(s, start, end, n)
<1>1. num = sign /\ n # 0 /\ ~(Absolute(num) < mx) /\ (start = 0 /\ num > 0 => num \in 0 .. H)
  BY SizeAssumption DEF Absolute, Rows, Clamped
<1>10. t = ScrolledBy(s, start, end, num)
  <2>1. ~(n = 0 \/ start > end)
    BY <1>1 DEF Rows
  <2> QED
    BY <2>1, ScrollRegionClamps
<1> HIDE DEF num
<1>2. t = [h EXCEPT !.pending_scroll = p]
  BY <1>1, <1>10 DEF ScrolledBy
<1>3. WF(h)
  BY <1>1, HistoryScrollWF
<1>4. /\ SameScreen(h, s) /\ h.linenumbers = s.linenumbers
      /\ h.cursor_y = s.cursor_y /\ SameText(h, s)
      /\ Bottom(s) => Bottom(h)
  BY <1>1, HistoryScrollFields DEF SameScreen, SameText
<1> HIDE DEF h
<1> HIDE DEF p
<1>5. /\ t.shown = h.shown /\ t.dirty = h.dirty /\ t.text = h.text
      /\ t.linenumbers = h.linenumbers
      /\ t.scroll_top = h.scroll_top /\ t.scroll_bot = h.scroll_bot
      /\ t.cursor_y = h.cursor_y /\ t.pending_scroll = p /\ SameRing(t, h)
  BY <1>2, <1>3 DEF WF, StoreOK, VTermState, SameRing
<1> HIDE DEF t
<1>6. SameText(t, s)
  BY <1>4, <1>5 DEF SameText, RowText
<1>7. Bottom(s) => Bottom(t)
  BY <1>4, <1>5, RingBottom
<1>8. t.pending_scroll = IF fast THEN s.pending_scroll + sign ELSE s.pending_scroll
  BY <1>1, <1>4, <1>5 DEF p, SameScreen
<1>9. /\ t.shown = s.shown /\ t.dirty = s.dirty
      /\ t.scroll_top = s.scroll_top /\ t.scroll_bot = s.scroll_bot
      /\ t.cursor_y = s.cursor_y
  BY <1>4, <1>5 DEF SameScreen
<1>11. SameHistory(t, IF start = 0 /\ n > 0 THEN history_scroll(s, mx) ELSE s)
  <2>1. SameHistory(t, h)
    BY <1>5 DEF SameRing, SameHistory
  <2>2. h = IF start = 0 /\ n > 0 THEN history_scroll(s, mx) ELSE s
    <3>1. mx > 0 /\ mx \in Int
      BY DEF Rows
    <3> HIDE DEF mx
    <3>2. num > 0 <=> n > 0
      BY <1>1, <3>1
    <3>3. n > 0 => num = mx
      BY <1>1
    <3> QED
      BY <3>2, <3>3 DEF h
  <2> QED
    BY <2>1, <2>2
<1> QED
  BY <1>6, <1>7, <1>8, <1>9, <1>11 DEF t

\* The invariant of input(): the view is at the end of the history and the
\* screen of the active shell is synchronised.
Good(s, act) == Bottom(s) /\ (act => Synced(s))

\* A scroll of the margins' region: what the postponed move will bring to a
\* row is what it would have brought to the row whose line came here.
LEMMA ShiftedSynced ==
  ASSUME NEW s, WF(s), Synced(s), NEW t, NEW start \in Rows, NEW end \in Rows,
         NEW n \in Int, n # 0, Absolute(n) < end - start + 1,
         Shifted(t, s, start, end, n)
  PROVE  Synced(t)
<1> DEFINE R == s.scroll_top .. s.scroll_bot
           p == s.pending_scroll
<1>0. /\ s.scroll_top \in Rows /\ s.scroll_bot \in Rows /\ p \in Int
      /\ R \subseteq Rows /\ start < end /\ \A y \in Rows : y \in Int
  BY SizeAssumption DEF WF, StoreOK, VTermState, Rows, Absolute
<1>1. \A y \in Rows : y \in MoveTargets(s) => y \in R
  BY DEF MoveTargets
<1>2. CASE ~(start = s.scroll_top /\ end = s.scroll_bot)
  <2>1. MoveTargets(t) = MoveTargets(s)
    BY <1>2 DEF Shifted, MoveTargets
  <2>2. \A y \in Rows : Expected(t, y) = Expected(s, y)
    BY <1>2, <2>1 DEF Expected, Shifted
  <2>3. \A y \in start .. end : t.dirty[y] = Zones
    BY <1>2 DEF Shifted
  <2>4. \A y \in Rows \ (start .. end) :
          RowText(t, y) = RowText(s, y) /\ t.dirty[y] = s.dirty[y]
    BY DEF Shifted
  <2>5. Due(t)
    BY <2>2, <2>3, <2>4 DEF Due, Synced, Exact
  <2>6. Marked(t)
    BY <1>0, <1>2, <2>1, <2>3, <2>4 DEF Marked, Synced, Shifted
  <2> QED
    BY <2>5, <2>6 DEF Synced
<1>3. CASE start = s.scroll_top /\ end = s.scroll_bot
  <2>1. /\ t.pending_scroll = p + n /\ t.shown = s.shown
        /\ t.scroll_top = s.scroll_top /\ t.scroll_bot = s.scroll_bot
    BY <1>3 DEF Shifted
  <2>2. \A y \in R : y + n \in R =>
          RowText(t, y) = RowText(s, y + n) /\ t.dirty[y] = s.dirty[y + n]
    BY <1>3 DEF Shifted
  <2>3. \A y \in R : y + n \notin R => t.dirty[y] = Zones
    BY <1>3 DEF Shifted
  <2>4. \A y \in Rows \ R : RowText(t, y) = RowText(s, y) /\ t.dirty[y] = s.dirty[y]
    BY <1>3 DEF Shifted
  <2>5. ASSUME NEW y \in R, y + n \in R, p = 0
        PROVE  /\ y \in MoveTargets(t)
               /\ Expected(t, y) = Expected(s, y + n)
    <3>1. y \in MoveTargets(t)
      BY <1>0, <1>3, <2>1, <2>5 DEF MoveTargets, Absolute
    <3>2. MoveTargets(s) = {}
      BY <2>5 DEF MoveTargets
    <3> QED
      BY <2>1, <2>5, <3>1, <3>2 DEF Expected
  <2>6. ASSUME NEW y \in R, y + n \in MoveTargets(s)
        PROVE  /\ p + n # 0 => y \in MoveTargets(t)
               /\ Expected(t, y) = Expected(s, y + n)
    <3>1. y + n + p \in R
      BY <2>6 DEF MoveTargets
    <3>2. p + n # 0 => y \in MoveTargets(t)
      BY <1>0, <2>1, <3>1 DEF MoveTargets
    <3>3. p + n = 0 => y \notin MoveTargets(t) /\ y + n + p = y
      BY <1>0, <2>1 DEF MoveTargets
    <3>4. y + (p + n) = y + n + p
      BY <1>0
    <3> QED
      BY <2>1, <2>6, <3>2, <3>3, <3>4 DEF Expected
  <2>7. ASSUME NEW y \in R, y + n \in R, s.dirty[y + n] # Zones, p # 0
        PROVE  y + n \in MoveTargets(s)
    BY <1>0, <1>3, <2>7 DEF Synced, Marked
  <2>8. Due(t)
    <3> SUFFICES ASSUME NEW y \in Rows, NEW z \in Exact, z \notin t.dirty[y]
                 PROVE  Expected(t, y)[z] = RowText(t, y)[z]
      BY DEF Due
    <3>1. z \in Zones
      BY DEF Exact
    <3>2. CASE y \notin R
      <4>1. y \notin MoveTargets(t) /\ y \notin MoveTargets(s)
        BY <2>1, <3>2 DEF MoveTargets
      <4> QED
        BY <2>1, <2>4, <3>2, <4>1 DEF Expected, Synced, Due
    <3>3. CASE y \in R
      <4>1. y + n \in R /\ s.dirty[y + n] # Zones /\ z \notin s.dirty[y + n]
        BY <2>2, <2>3, <3>1, <3>3
      <4>2. Expected(t, y) = Expected(s, y + n)
        BY <2>5, <2>6, <2>7, <3>3, <4>1
      <4>3. Expected(s, y + n)[z] = RowText(s, y + n)[z]
        BY <1>0, <4>1 DEF Synced, Due
      <4> QED
        BY <2>2, <3>3, <4>1, <4>2, <4>3
    <3> QED
      BY <3>2, <3>3
  <2>9. Marked(t)
    <3> SUFFICES ASSUME p + n # 0, NEW y \in R, y \notin MoveTargets(t)
                 PROVE  t.dirty[y] = Zones
      BY <2>1 DEF Marked
    <3>1. CASE y + n \notin R
      BY <2>3, <3>1
    <3>2. CASE y + n \in R
      BY <2>2, <2>5, <2>6, <2>7, <3>2
    <3> QED
      BY <3>1, <3>2
  <2> QED
    BY <2>8, <2>9 DEF Synced
<1> QED
  BY <1>2, <1>3

\* scroll_region, but for a region of several rows scrolled away as a whole.
LEMMA ScrollRegionGood ==
  ASSUME NEW act, NEW s, WF(s), Good(s, act), NEW start \in Rows, NEW end \in Rows,
         NEW n \in Int, start < end => Absolute(n) <= end - start
  PROVE  Good(scroll_region(s, start, end, n), act)
<1> DEFINE t == scroll_region(s, start, end, n)
<1>0. start \in Int /\ end \in Int
  BY DEF Rows
<1>1. CASE n = 0 \/ start > end
  BY <1>1 DEF scroll_region
<1>2. CASE n # 0 /\ Absolute(n) < end - start + 1
  <2>1. Shifted(t, s, start, end, n)
    BY <1>2, ScrollRegionShifts
  <2> HIDE DEF t
  <2>2. act => Synced(t)
    BY <1>2, <2>1, ShiftedSynced DEF Good
  <2>3. Bottom(t)
    BY <2>1 DEF Shifted, Good
  <2> QED
    BY <2>2, <2>3 DEF Good, t
<1>3. CASE n # 0 /\ start = end
  <2>1. Absolute(n) >= end - start + 1 /\ start <= end
    BY <1>0, <1>3 DEF Absolute
  <2>2. /\ t.shown = s.shown /\ t.dirty = s.dirty /\ SameText(t, s)
        /\ t.scroll_top = s.scroll_top /\ t.scroll_bot = s.scroll_bot
        /\ start # s.scroll_top \/ end # s.scroll_bot =>
             t.pending_scroll = s.pending_scroll
        /\ Bottom(s) => Bottom(t)
    BY <2>1, ScrollRegionWhole
  <2>3. WF(t)
    BY ScrollRegionWF
  <2> SUFFICES Good(t, act)
    OBVIOUS
  <2> HIDE DEF t
  <2>6. t.scroll_top \in Int /\ s.scroll_top \in Int
    BY <2>3 DEF WF, StoreOK, VTermState, Rows
  <2>4. CASE ~(start = s.scroll_top /\ end = s.scroll_bot)
    BY <2>2, <2>4, SyncedSame DEF SameScreen, Good
  <2>5. CASE start = s.scroll_top /\ end = s.scroll_bot
    <3>0. t.scroll_top = t.scroll_bot /\ s.scroll_top = s.scroll_bot
      BY <1>3, <2>2, <2>5
    <3>1. MoveTargets(t) = {} /\ MoveTargets(s) = {}
      BY <2>3, <2>6, <3>0, NothingToMove
    <3>2. Synced(s) => Due(t)
      BY <2>2, <3>1 DEF Synced, Due, Expected, SameText
    <3>3. Marked(t)
      BY <2>6, <3>0 DEF Marked
    <3> QED
      BY <2>2, <3>2, <3>3 DEF Good, Synced
  <2> QED
    BY <2>4, <2>5
<1>4. \/ n = 0 \/ start > end
      \/ n # 0 /\ Absolute(n) < end - start + 1
      \/ n # 0 /\ start = end
  BY <1>0 DEF Absolute
<1> QED
  BY <1>1, <1>2, <1>3, <1>4

-----------------------------------------------------------------------------
(* Painting *)

\* requestUpdate paints the marked zones and touches nothing else.
Painted(t, s, d, act) ==
  /\ t.text = s.text /\ t.linenumbers = s.linenumbers /\ t.dirty = s.dirty
  /\ t.pending_scroll = s.pending_scroll /\ t.cursor_y = s.cursor_y
  /\ t.scroll_top = s.scroll_top /\ t.scroll_bot = s.scroll_bot
  /\ SameRing(t, s)
  /\ \A y \in Rows, z \in Zones :
       t.shown[y][z] = IF act /\ z \in d[y] THEN ViewText(s, y)[z] ELSE s.shown[y][z]

LEMMA RequestUpdatePaints ==
  ASSUME NEW s, WF(s), NEW d, NEW act
  PROVE  Painted(requestUpdate(s, d, act), s, d, act)
<1> DEFINE row(y) == [z \in Zones |-> IF act /\ z \in d[y] THEN ViewText(s, y)[z]
                                                           ELSE s.shown[y][z]]
           sh == [y \in Rows |-> row(y)]
           t  == requestUpdate(s, d, act)
<1>1. t = [s EXCEPT !.shown = sh]
  BY DEF requestUpdate
<1>2. ASSUME NEW y \in Rows, NEW z \in Zones
      PROVE  sh[y][z] = IF act /\ z \in d[y] THEN ViewText(s, y)[z] ELSE s.shown[y][z]
  <2>1. sh[y] = row(y)
    OBVIOUS
  <2> QED
    BY <2>1
<1> HIDE DEF sh, t
<1>3. /\ t.text = s.text /\ t.linenumbers = s.linenumbers /\ t.dirty = s.dirty
      /\ t.pending_scroll = s.pending_scroll /\ t.cursor_y = s.cursor_y
      /\ t.scroll_top = s.scroll_top /\ t.scroll_bot = s.scroll_bot
      /\ SameRing(t, s) /\ t.shown = sh
  BY <1>1 DEF WF, StoreOK, VTermState, SameRing
<1> QED
  BY <1>2, <1>3 DEF Painted, t

LEMMA PaintedView ==
  ASSUME NEW s, NEW t, NEW d, NEW act, Painted(t, s, d, act), NEW y
  PROVE  ViewText(t, y) = ViewText(s, y)
BY DEF ViewText, get_line, total_history_lines, Painted, SameRing

\* update brings the screen of the active shell up to date, whether or not
\* the pixels could be moved.
LEMMA UpdateFields ==
  ASSUME NoOverflow, NEW s, WF(s), NEW ok, NEW act
  PROVE  LET t == update(s, ok, act)
         IN  /\ t.text = s.text /\ t.linenumbers = s.linenumbers
             /\ t.pending_scroll = 0 /\ t.cursor_y = s.cursor_y
             /\ t.scroll_top = s.scroll_top /\ t.scroll_bot = s.scroll_bot
             /\ SameRing(t, s)
             /\ act /\ Bottom(s) /\ Due(s) => Fresh(t) /\ Synced(t)
<1> DEFINE dst == MoveTargets(s)
           p   == s.pending_scroll
           d   == [y \in Rows |-> IF y \in dst /\ ~ok THEN Zones ELSE s.dirty[y]]
           sh  == [y \in Rows |-> IF act /\ ok /\ y \in dst
                                  THEN s.shown[y + p] ELSE s.shown[y]]
           clean == [y \in Rows |-> {}]
           a   == [s EXCEPT !.shown = sh]
           b   == [a EXCEPT !.pending_scroll = 0]
           m   == [b EXCEPT !.dirty = clean]
           t   == update(s, ok, act)
<1>1. t = requestUpdate(m, d, act)
  BY DEF update
<1>2. \A y \in dst : y + p \in Rows
  BY SizeAssumption DEF MoveTargets, WF, StoreOK, VTermState, Rows
<1>3. sh \in [Rows -> [Zones -> Tokens \cup {Foreign}]] /\ clean \in [Rows -> SUBSET Zones]
  BY <1>2 DEF WF, StoreOK, VTermState
<1>4. \A y \in Rows : ok /\ act => sh[y] = Expected(s, y)
  BY DEF Expected
<1>5. \A y \in Rows : y \notin dst => sh[y] = Expected(s, y) /\ d[y] = s.dirty[y]
  BY DEF Expected
<1>6. \A y \in Rows : ok => d[y] = s.dirty[y]
  OBVIOUS
<1>7. \A y \in Rows : y \in dst /\ ~ok => d[y] = Zones
  OBVIOUS
<1> HIDE DEF sh, clean, d
<1>8. WF(a) /\ a.text = s.text /\ a.linenumbers = s.linenumbers
      /\ a.cursor_y = s.cursor_y /\ a.shown = sh
      /\ a.scroll_top = s.scroll_top /\ a.scroll_bot = s.scroll_bot
      /\ SameRing(a, s)
  BY <1>3, ShownWF DEF WF, StoreOK, VTermState, SameRing
<1> HIDE DEF a
<1>9. WF(b) /\ b.text = s.text /\ b.linenumbers = s.linenumbers
      /\ b.cursor_y = s.cursor_y /\ b.shown = sh /\ b.pending_scroll = 0
      /\ b.scroll_top = s.scroll_top /\ b.scroll_bot = s.scroll_bot
      /\ SameRing(b, s)
  <2>1. WF(b)
    BY <1>8, PendingWF
  <2> QED
    BY <1>8, <2>1 DEF WF, StoreOK, VTermState, SameRing
<1> HIDE DEF b
<1>10. WF(m) /\ m.text = s.text /\ m.linenumbers = s.linenumbers
      /\ m.cursor_y = s.cursor_y /\ m.shown = sh /\ m.pending_scroll = 0
      /\ m.scroll_top = s.scroll_top /\ m.scroll_bot = s.scroll_bot
      /\ SameRing(m, s)
  BY <1>3, <1>9, DirtyWF DEF WF, StoreOK, VTermState, SameRing
<1> HIDE DEF m
<1>11. Painted(t, m, d, act)
  BY <1>1, <1>10, RequestUpdatePaints
<1>12. WF(t)
  BY UpdateWF
<1> HIDE DEF t
<1>13. ASSUME act, Bottom(s), Due(s) PROVE Fresh(t) /\ Synced(t)
  <2>1. Bottom(m) /\ Bottom(t)
    BY <1>10, <1>11, <1>13, RingBottom DEF Painted
  <2>2. \A y \in Rows : /\ ViewText(m, y) = RowText(s, y)
                        /\ ViewText(t, y) = RowText(s, y)
                        /\ RowText(t, y) = RowText(s, y)
    BY <1>10, <1>11, <1>12, <2>1, ViewIsRow DEF RowText, Painted
  <2>3. ASSUME NEW y \in Rows, NEW z \in Exact PROVE t.shown[y][z] = RowText(s, y)[z]
    <3>1. z \in Zones
      BY DEF Exact
    <3>2. z \in d[y] => t.shown[y][z] = RowText(s, y)[z]
      BY <1>11, <1>13, <2>2, <3>1 DEF Painted
    <3>3. z \notin d[y] => t.shown[y][z] = sh[y][z]
      BY <1>10, <1>11, <3>1 DEF Painted
    <3>4. z \notin d[y] => z \notin s.dirty[y] /\ sh[y] = Expected(s, y)
      BY <1>4, <1>5, <1>6, <1>7, <1>13, <3>1
    <3> QED
      BY <1>13, <3>2, <3>3, <3>4 DEF Due
  <2>4. Fresh(t)
    BY <2>2, <2>3 DEF Fresh
  <2>5. t.pending_scroll = 0
    BY <1>10, <1>11 DEF Painted
  <2>6. MoveTargets(t) = {}
    BY <1>12, <2>5, NothingToMove
  <2>7. Synced(t)
    BY <2>2, <2>3, <2>5, <2>6 DEF Synced, Due, Marked, Expected
  <2> QED
    BY <2>4, <2>7
<1>14. SameRing(t, s)
  BY <1>10, <1>11 DEF Painted, SameRing
<1> QED
  BY <1>10, <1>11, <1>13, <1>14 DEF Painted, t

LEMMA UpdateGood ==
  ASSUME NoOverflow, NEW s, WF(s), NEW ok, NEW act, NEW sync, sync => act,
         Bottom(s), sync => Due(s)
  PROVE  Good(update(s, ok, act), sync)
BY UpdateFields, RingBottom DEF Good

\* Moving the view keeps the screen fresh: rows that stay visible are moved
\* with it, or all are painted.
LEMMA HistoryDisplayFresh ==
  ASSUME NoOverflow, NEW s, WF(s), NEW start_ \in Int, NEW ok, NEW act
  PROVE  LET t == historyDisplay(s, start_, ok, act)
         IN  /\ t.pending_scroll = s.pending_scroll
             /\ start_ = total_history_lines(s) => Bottom(t)
             /\ act /\ Fresh(s) => Fresh(t)
             /\ t.text = s.text /\ t.linenumbers = s.linenumbers
             /\ t.history_save_line = s.history_save_line
             /\ t.history_full = s.history_full
<1> DEFINE total == total_history_lines(s)
           want  == IF start_ < 0 THEN 0 ELSE Smaller(start_, total)
           n     == want - s.visual_start_line
           v     == [s EXCEPT !.visual_start_line = want]
           accel == accel_scroll(n, ok)
           new   == RepaintedRows(n, accel)
           sh    == [y \in Rows |-> IF act /\ y + n \in Rows /\ accel
                                    THEN s.shown[y + n] ELSE s.shown[y]]
           m     == [v EXCEPT !.shown = sh]
           d     == [y \in Rows |-> IF y \in new THEN Zones ELSE {}]
           t     == historyDisplay(s, start_, ok, act)
<1>1. /\ total \in Nat /\ want \in 0 .. total
      /\ s.visual_start_line \in 0 .. total
      /\ HistoryLines = 0 => total = 0
      /\ start_ = total => want = total
  BY SizeAssumption
     DEF WF, StoreOK, VTermState, total_history_lines, Smaller
<1>2. sh \in [Rows -> [Zones -> Tokens \cup {Foreign}]]
  BY DEF WF, StoreOK, VTermState
<1>3. t = IF HistoryLines = 0 \/ n = 0 THEN s ELSE requestUpdate(m, d, act)
  BY DEF historyDisplay
<1>4. CASE HistoryLines = 0 \/ n = 0
  BY <1>1, <1>3, <1>4 DEF Bottom
<1>5. CASE ~(HistoryLines = 0 \/ n = 0)
  <2>1. \A y \in Rows : d[y] = IF y \in new THEN Zones ELSE {}
    OBVIOUS
  <2>2. \A y \in Rows : act /\ y \notin new =>
          y + n \in Rows /\ sh[y] = s.shown[y + n]
    BY DEF RepaintedRows
  <2> SUFFICES /\ t.pending_scroll = s.pending_scroll
               /\ start_ = total => Bottom(t)
               /\ act /\ Fresh(s) => Fresh(t)
               /\ t.text = s.text /\ t.linenumbers = s.linenumbers
               /\ t.history_save_line = s.history_save_line
               /\ t.history_full = s.history_full
    OBVIOUS
  <2> HIDE DEF sh, d, new
  <2>3. want \in Nat /\ want <= total /\ s.visual_start_line \in Nat
    BY <1>1
  <2> HIDE DEF want
  <2>4. /\ v.visual_start_line = want /\ v.linenumbers = s.linenumbers
        /\ v.history_save_line = s.history_save_line
        /\ v.history_full = s.history_full /\ v.text = s.text
        /\ v.pending_scroll = s.pending_scroll /\ v \in VTermState
    BY <2>3 DEF WF, StoreOK, VTermState
  <2> HIDE DEF v
  <2>5. total_history_lines(v) = total
    BY <2>4 DEF total_history_lines
  <2>6. WF(v)
    BY <2>3, <2>4, <2>5 DEF WF, StoreOK, Permutation
  <2>7. /\ WF(m) /\ SameRing(m, v) /\ m.linenumbers = s.linenumbers
        /\ m.text = s.text /\ m.shown = sh /\ m.pending_scroll = s.pending_scroll
    BY <1>2, <2>4, <2>6, ShownWF DEF VTermState, SameRing
  <2> HIDE DEF m
  <2>8. Painted(t, m, d, act)
    BY <1>3, <1>5, <2>7, RequestUpdatePaints
  <2> HIDE DEF t
  <2>9. total_history_lines(t) = total /\ t.visual_start_line = want
    BY <2>4, <2>5, <2>7, <2>8 DEF total_history_lines, SameRing, Painted
  <2>10. \A y \in Rows : ViewText(t, y) = ViewText(m, y)
    BY <2>8, PaintedView
  <2>11. ASSUME NEW y \in Rows, y + n \in Rows
         PROVE  ViewText(m, y) = ViewText(s, y + n)
    <3>1. want + y = s.visual_start_line + (y + n)
      BY <2>3 DEF Rows
    <3> QED
      BY <2>4, <2>7, <3>1 DEF ViewText, get_line, total_history_lines, SameRing
  <2>12. ASSUME act, Fresh(s) PROVE Fresh(t)
    <3> SUFFICES ASSUME NEW y \in Rows, NEW z \in Exact
                 PROVE  t.shown[y][z] = ViewText(t, y)[z]
      BY DEF Fresh
    <3>1. z \in Zones
      BY DEF Exact
    <3>2. CASE y \in new
      BY <2>1, <2>8, <2>10, <2>12, <3>1, <3>2 DEF Painted
    <3>3. CASE y \notin new
      <4>1. t.shown[y][z] = sh[y][z]
        BY <2>1, <2>7, <2>8, <3>1, <3>3 DEF Painted
      <4>2. y + n \in Rows /\ sh[y] = s.shown[y + n]
        BY <2>2, <2>12, <3>3
      <4>3. s.shown[y + n][z] = ViewText(s, y + n)[z]
        BY <2>12, <4>2 DEF Fresh
      <4> QED
        BY <2>10, <2>11, <4>1, <4>2, <4>3
    <3> QED
      BY <3>2, <3>3
  <2>13. /\ t.text = s.text /\ t.linenumbers = s.linenumbers
         /\ t.history_save_line = s.history_save_line
         /\ t.history_full = s.history_full
    BY <2>4, <2>7, <2>8 DEF Painted, SameRing
  <2> QED
    BY <1>1, <2>7, <2>8, <2>9, <2>12, <2>13 DEF Bottom, Painted, want
<1> QED
  BY <1>4, <1>5

-----------------------------------------------------------------------------
(* Handlers *)

LEMMA WriteAreaGood ==
  ASSUME NEW act, NEW s, WF(s), Good(s, act), NEW ys \in SUBSET Rows,
         NEW zs \in SUBSET Zones, NEW v \in Tokens
  PROVE  Good(WriteArea(s, ys, zs, v), act)
BY WriteAreaFields, WriteAreaSynced, RingBottom DEF Good, Written

\* Nothing of what Good speaks of changes.
LEMMA GoodSame ==
  ASSUME NEW act, NEW s, NEW t, SameScreen(t, s), SameText(t, s), SameRing(t, s),
         Good(s, act)
  PROVE  Good(t, act)
BY SyncedSame, RingBottom DEF Good

LEMMA MoveCursorSame ==
  ASSUME NEW s, WF(s), NEW y
  PROVE  LET t == move_cursor(s, y)
         IN  /\ SameScreen(t, s) /\ SameText(t, s) /\ SameRing(t, s)
             /\ t.text = s.text
<1> DEFINE c == Smaller(y, H - 1)
           t == [s EXCEPT !.cursor_y = c]
<1>1. move_cursor(s, y) = t
  BY DEF move_cursor
<1> HIDE DEF c
<1>2. SameScreen(t, s) /\ SameRing(t, s)
      /\ t.text = s.text /\ t.linenumbers = s.linenumbers
  BY DEF WF, StoreOK, VTermState, SameScreen, SameRing
<1> HIDE DEF t
<1> QED
  BY <1>1, <1>2 DEF SameText, RowText

LEMMA MoveCursorGood ==
  ASSUME NEW act, NEW s, WF(s), Good(s, act), NEW y
  PROVE  Good(move_cursor(s, y), act)
BY MoveCursorSame, GoodSame

LEMMA LinefeedGood ==
  ASSUME NEW act, NEW s, WF(s), Good(s, act)
  PROVE  Good(linefeed(s), act)
<1>1. s.scroll_top \in Rows /\ s.scroll_bot \in Rows
  BY DEF WF, StoreOK, VTermState
<1>2. s.scroll_top < s.scroll_bot => Absolute(1) <= s.scroll_bot - s.scroll_top
  BY <1>1 DEF Absolute, Rows
<1>3. Good(scroll_region(s, s.scroll_top, s.scroll_bot, 1), act)
  BY <1>1, <1>2, ScrollRegionGood
<1> QED
  BY <1>3, MoveCursorGood DEF linefeed

\* Room for an image: a scroll of the whole region is sound when no other
\* one is postponed.
LEMMA ImageScrollDue ==
  ASSUME NEW act, NEW s, WF(s), Good(s, act), NEW n \in Int, n > 0,
         act => \/ s.pending_scroll = 0
                \/ s.scroll_top < s.scroll_bot => n <= s.scroll_bot - s.scroll_top
  PROVE  LET t == scroll_region(s, s.scroll_top, s.scroll_bot, n)
         IN  Bottom(t) /\ (act => Due(t))
<1> DEFINE t == scroll_region(s, s.scroll_top, s.scroll_bot, n)
<1>0. /\ s.scroll_top \in Rows /\ s.scroll_bot \in Rows
      /\ s.scroll_top \in Int /\ s.scroll_bot \in Int
  BY DEF WF, StoreOK, VTermState, Rows
<1>1. CASE s.scroll_top < s.scroll_bot => Absolute(n) <= s.scroll_bot - s.scroll_top
  BY <1>0, <1>1, ScrollRegionGood DEF Good, Synced
<1>2. CASE /\ s.scroll_top < s.scroll_bot /\ (act => s.pending_scroll = 0)
           /\ Absolute(n) >= s.scroll_bot - s.scroll_top + 1
  <2>1. /\ t.shown = s.shown /\ t.dirty = s.dirty /\ SameText(t, s)
        /\ t.scroll_top = s.scroll_top /\ t.scroll_bot = s.scroll_bot
        /\ t.pending_scroll = s.pending_scroll + (s.scroll_bot - s.scroll_top + 1)
        /\ Bottom(s) => Bottom(t)
    BY <1>0, <1>2, ScrollRegionWhole
  <2> HIDE DEF t
  <2>2. act => MoveTargets(s) = {}
    BY <1>2, NothingToMove
  <2>3. act => MoveTargets(t) = {}
    <3>1. act => ~(t.pending_scroll < t.scroll_bot - t.scroll_top + 1)
      BY <1>0, <1>2, <2>1
    <3> QED
      BY <3>1 DEF MoveTargets
  <2>4. act => Due(t)
    BY <2>1, <2>2, <2>3 DEF Good, Synced, Due, Expected, SameText
  <2> QED
    BY <2>1, <2>4 DEF Good, t
<1>3. Absolute(n) = n
  BY DEF Absolute
<1> QED
  BY <1>0, <1>1, <1>2, <1>3

LEMMA ImagePlacedGood ==
  ASSUME NoOverflow, NEW act, NEW sync, sync => act, NEW s, WF(s), Good(s, sync),
         NEW n \in Nat, NEW zs \in SUBSET Zones, NEW v \in Tokens, NEW ok,
         sync => s.pending_scroll = 0 \/ ~ScrollsAll(s, n)
  PROVE  Good(ImagePlaced(s, n, zs, v, ok, act), sync)
<1> DEFINE room == ImageRoom(s)
           mx   == s.scroll_bot - s.scroll_top + 1
           need == Smaller(n - room, mx)
           scr  == scroll_region(s, s.scroll_top, s.scroll_bot, need)
           up   == IF n > room THEN update(scr, ok, act) ELSE s
           cur  == IF n <= room THEN s.cursor_y
                   ELSE IF s.cursor_y >= s.scroll_top + need
                        THEN s.cursor_y - need ELSE s.scroll_top
           end  == Smaller(cur + n, H)
           w    == WriteArea(up, cur .. end - 1, zs, v)
<1>1. /\ s.cursor_y \in Rows /\ s.scroll_top \in Rows /\ s.scroll_bot \in Rows
      /\ s.cursor_y \in Nat /\ s.scroll_top \in Nat /\ s.scroll_bot \in Nat
  BY DEF WF, StoreOK, VTermState, Rows
<1>2. need \in Int /\ room \in Int
  BY <1>1 DEF Rows, Smaller, ImageRoom
<1>3. ImagePlaced(s, n, zs, v, ok, act) = move_cursor(w, end)
  BY DEF ImagePlaced
<1>4. cur .. end - 1 \in SUBSET Rows
  <2>1. end \in Int /\ end <= H
    BY <1>1, <1>2, SizeAssumption DEF Smaller
  <2>2. cur \in Nat
    BY <1>1, <1>2
  <2> HIDE DEF cur, end
  <2> QED
    BY <2>1, <2>2, SizeAssumption DEF Rows
<1>5. ASSUME n > room PROVE WF(scr) /\ Good(update(scr, ok, act), sync)
  <2>1. WF(scr)
    BY <1>1, <1>2, ScrollRegionWF
  <2>2. CASE mx >= 1
    <3>1. need > 0 /\ need <= mx
      BY <1>1, <1>2, <1>5, <2>2 DEF Smaller
    <3>2. ~ScrollsAll(s, n) =>
            (s.scroll_top < s.scroll_bot => need <= s.scroll_bot - s.scroll_top)
      BY <1>1, <1>2 DEF ScrollsAll, Smaller
    <3> HIDE DEF need
    <3>3. Bottom(scr) /\ (sync => Due(scr))
      BY <1>2, <3>1, <3>2, ImageScrollDue
    <3> QED
      BY <2>1, <3>3, UpdateGood
  <2>3. CASE ~(mx >= 1)
    <3>1. s.scroll_top > s.scroll_bot
      BY <1>1, <2>3
    <3>2. scr = s
      BY <3>1 DEF scroll_region
    <3> QED
      BY <2>1, <3>2, UpdateGood DEF Good, Synced
  <2> QED
    BY <2>2, <2>3
<1>6. WF(up) /\ Good(up, sync)
  <2>1. CASE n > room
    BY <1>5, <2>1, UpdateWF
  <2>2. CASE ~(n > room)
    BY <2>2
  <2> QED
    BY <2>1, <2>2
<1> HIDE DEF up, cur, end
<1>7. WF(w) /\ Good(w, sync)
  BY <1>4, <1>6, WriteAreaWF, WriteAreaGood
<1> HIDE DEF w
<1> QED
  BY <1>3, <1>7, MoveCursorGood

-----------------------------------------------------------------------------
(* The invariant *)

\* The shell whose screen is followed; an image that scrolls the whole region
\* away while an earlier scroll is postponed would break the track.
Followed == active /\ ~TallImages

ScreenInv ==
  /\ phase = "input" => Good(vt, Followed)
  /\ phase = "idle" => vt.pending_scroll = 0 /\ (Followed => Fresh(vt))

\* A screen that shows the view at the end of the history is in step.
LEMMA FreshGood ==
  ASSUME NoOverflow, NEW sync, NEW s, WF(s), Bottom(s), s.pending_scroll = 0,
         sync => Fresh(s)
  PROVE  Good(s, sync)
<1>1. MoveTargets(s) = {}
  BY NothingToMove
<1>2. sync => Due(s)
  BY <1>1, ViewIsRow DEF Due, Expected, Fresh
<1> QED
  BY <1>2 DEF Good, Synced, Marked

LEMMA InitScreen ==
  ASSUME Init
  PROVE  ScreenInv
BY DEF Init, ScreenInv, Followed

LEMMA HandleScreen ==
  ASSUME NEW s, Handle(s), Good(s, Followed)
  PROVE  ScreenInv'
BY DEF Handle, ScreenInv, Followed

LEMMA StepScreen ==
  ASSUME NoOverflow, Inv, ScreenInv, [Next]_vars
  PROVE  ScreenInv'
<1> USE DEF ZoneSets
<1>0. /\ WF(vt)
      /\ vt.cursor_y \in Rows /\ vt.scroll_top \in Rows /\ vt.scroll_bot \in Rows
      /\ vt.visual_start_line \in Nat
      /\ total_history_lines(vt) \in Int
      /\ H \in Int /\ -H \in Int /\ Rows \subseteq Int
      /\ Followed => active
  BY InvWF, SizeAssumption
     DEF WF, StoreOK, VTermState, total_history_lines, Rows, Followed
<1>g. ASSUME NEW s, Handle(s) PROVE Good(vt, Followed)
  BY <1>g DEF Handle, ScreenInv
<1>1. ASSUME NEW ok, BeginInput(ok) PROVE ScreenInv'
  <2>1. /\ vt' = historyDisplay(vt, total_history_lines(vt), ok, active)
        /\ phase' = "input" /\ active' = active
        /\ vt.pending_scroll = 0 /\ (Followed => Fresh(vt))
    BY <1>1 DEF BeginInput, ScreenInv
  <2>2. WF(vt')
    BY <1>0, <2>1, HistoryDisplayWF
  <2>3. /\ vt'.pending_scroll = 0 /\ Bottom(vt')
        /\ Followed => Fresh(vt')
    BY <1>0, <2>1, HistoryDisplayFresh
  <2>4. Good(vt', Followed)
    BY <2>2, <2>3, FreshGood
  <2> QED
    BY <2>1, <2>4 DEF ScreenInv, Followed
<1>2. ASSUME NEW ok, EndInput(ok) PROVE ScreenInv'
  <2>1. /\ vt' = update(vt, ok, active) /\ phase' = "idle" /\ active' = active
        /\ Good(vt, Followed)
    BY <1>2 DEF EndInput, ScreenInv
  <2>2. vt'.pending_scroll = 0 /\ (Followed => Fresh(vt'))
    BY <1>0, <2>1, UpdateFields DEF Good, Synced
  <2> QED
    BY <2>1, <2>2 DEF ScreenInv, Followed
<1>3. CASE lf
  BY <1>0, <1>g, <1>3, LinefeedGood, HandleScreen DEF lf
<1>4. CASE index_up
  <2>1. /\ vt.scroll_top < vt.scroll_bot =>
             Absolute(-1) <= vt.scroll_bot - vt.scroll_top
        /\ -1 \in Int
    <3>0. -1 \in Int
      OBVIOUS
    <3>1. Absolute(-1) = 1
      BY AbsoluteMinus
    <3>2. vt.scroll_top \in Int /\ vt.scroll_bot \in Int
      BY <1>0
    <3> QED
      BY <3>0, <3>1, <3>2
  <2>2. CASE vt.cursor_y > vt.scroll_top
    BY <1>0, <1>g, <1>4, <2>2, MoveCursorGood, HandleScreen DEF index_up
  <2>3. CASE ~(vt.cursor_y > vt.scroll_top)
    BY <1>0, <1>g, <1>4, <2>1, <2>3, ScrollRegionGood, HandleScreen DEF index_up
  <2> QED
    BY <2>2, <2>3
<1>5. ASSUME NEW zs \in ZoneSets, NEW v \in Tokens, NEW wrap \in BOOLEAN,
             do_normal_char(zs, v, wrap)
      PROVE  ScreenInv'
  <2> DEFINE s == IF wrap THEN linefeed(vt) ELSE vt
  <2>1. Handle(WriteArea(s, {s.cursor_y}, zs, v))
    BY <1>5 DEF do_normal_char
  <2>2. WF(s) /\ Good(s, Followed)
    BY <1>0, <1>g, <2>1, LinefeedWF, LinefeedGood
  <2> HIDE DEF s
  <2>3. {s.cursor_y} \in SUBSET Rows /\ zs \in SUBSET Zones
    BY <2>2 DEF WF, StoreOK, VTermState
  <2> QED
    BY <2>1, <2>2, <2>3, WriteAreaGood, HandleScreen
<1>6. ASSUME NEW zs \in ZoneSets, NEW v \in Tokens, wide_char_wraps(zs, v)
      PROVE  ScreenInv'
  <2> DEFINE last == {z \in Zones : \A x \in Zones : x <= z}
             t == Fill(vt, {vt.linenumbers[vt.cursor_y]}, last, Blank)
             b == [vt EXCEPT !.text = t]
             s == linefeed(b)
  <2>1. /\ Handle(WriteArea(s, {s.cursor_y}, zs, v)) /\ WideChars
        /\ Good(vt, Followed)
    BY <1>6, <1>g DEF wide_char_wraps
  <2>2. t \in [Lines -> Line]
    BY <1>0, FillType, TokenAssumption
  <2>3. \A l \in Lines, z \in Exact : t[l][z] = vt.text[l][z]
    <3>1. \A z \in Exact : z \in Zones /\ z \notin last
      BY <2>1, TokenAssumption DEF Exact
    <3>2. \A l \in Lines : t[l] = vt.text[l] \/
            t[l] = [z \in Zones |-> IF z \in last THEN Blank ELSE vt.text[l][z]]
      BY DEF Fill
    <3> HIDE DEF t, last
    <3>3. ASSUME NEW l \in Lines, NEW z \in Exact,
                 t[l] = [x \in Zones |-> IF x \in last THEN Blank ELSE vt.text[l][x]]
          PROVE  t[l][z] = vt.text[l][z]
      BY <3>1, <3>3
    <3> QED
      BY <3>2, <3>3
  <2> HIDE DEF t
  <2>4. WF(b)
    BY <1>0, <2>2 DEF WF, StoreOK, Permutation, VTermState, total_history_lines
  <2>5. /\ SameScreen(b, vt) /\ SameRing(b, vt)
        /\ b.linenumbers = vt.linenumbers /\ b.text = t
    BY <1>0 DEF WF, StoreOK, VTermState, SameScreen, SameRing
  <2> HIDE DEF b
  <2>6. \A y \in Rows, z \in Exact : RowText(b, y)[z] = RowText(vt, y)[z]
    BY <1>0, <2>3, <2>5, RowLines DEF RowText
  <2>7. Followed => Synced(b)
    BY <2>1, <2>5, <2>6
       DEF Good, Synced, Due, Marked, Expected, MoveTargets, SameScreen
  <2>8. Good(b, Followed)
    BY <2>1, <2>5, <2>7, RingBottom DEF Good
  <2>9. WF(s) /\ Good(s, Followed)
    BY <2>4, <2>8, LinefeedWF, LinefeedGood
  <2> HIDE DEF s
  <2>10. {s.cursor_y} \in SUBSET Rows /\ zs \in SUBSET Zones
    BY <2>9 DEF WF, StoreOK, VTermState
  <2> QED
    BY <2>1, <2>9, <2>10, WriteAreaGood, HandleScreen
<1>7. ASSUME NEW zs \in ZoneSets, NEW v \in Tokens, edit_row(zs, v)
      PROVE  ScreenInv'
  <2>1. {vt.cursor_y} \in SUBSET Rows /\ zs \in SUBSET Zones
    BY <1>0
  <2> QED
    BY <1>0, <1>g, <1>7, <2>1, WriteAreaGood, HandleScreen DEF edit_row
<1>8. ASSUME NEW n \in 1 .. H, insert_line(n) \/ delete_line(n)
      PROVE  ScreenInv'
  <2>1. vt.cursor_y .. vt.scroll_bot \in SUBSET Rows /\ Zones \in SUBSET Zones
    BY <1>0, SizeAssumption DEF Rows
  <2>2. n \in Int /\ -n \in Int
    OBVIOUS
  <2>3. CASE n >= vt.scroll_bot - vt.cursor_y + 1
    BY <1>0, <1>g, <1>8, <2>1, <2>3, WriteAreaGood, TokenAssumption, HandleScreen
       DEF insert_line, delete_line, clear_area
  <2>4. CASE ~(n >= vt.scroll_bot - vt.cursor_y + 1)
    <3>1. /\ Absolute(n) <= vt.scroll_bot - vt.cursor_y
          /\ Absolute(-n) <= vt.scroll_bot - vt.cursor_y
      <4>1. Absolute(n) = n /\ Absolute(-n) = n
        BY DEF Absolute
      <4>2. vt.cursor_y \in Int /\ vt.scroll_bot \in Int
        BY <1>0
      <4> QED
        BY <2>4, <4>1, <4>2
    <3> QED
      BY <1>0, <1>g, <1>8, <2>2, <2>4, <3>1, ScrollRegionGood, HandleScreen
         DEF insert_line, delete_line
  <2> QED
    BY <2>3, <2>4
<1>9. ASSUME NEW param \in 0 .. 2, NEW zs \in ZoneSets, erase_display(param, zs)
      PROVE  ScreenInv'
  <2> DEFINE part == clear_area(vt, {vt.cursor_y}, zs)
             s == IF param = 2 THEN vt ELSE part
             rest == CASE param = 0 -> vt.cursor_y + 1 .. H - 1
                       [] param = 1 -> 0 .. vt.cursor_y - 1
                       [] param = 2 -> Rows
  <2>1. Handle(clear_area(s, rest, Zones))
    BY <1>9 DEF erase_display
  <2>2. rest \in SUBSET Rows /\ {vt.cursor_y} \in SUBSET Rows
        /\ zs \in SUBSET Zones /\ Zones \in SUBSET Zones
    <3>1. vt.cursor_y + 1 .. H - 1 \subseteq Rows /\ 0 .. vt.cursor_y - 1 \subseteq Rows
      BY <1>0 DEF Rows
    <3>2. param = 0 \/ param = 1 \/ param = 2
      OBVIOUS
    <3> QED
      BY <1>0, <3>1, <3>2
  <2> HIDE DEF rest
  <2>3. WF(s) /\ Good(s, Followed)
    BY <1>0, <1>g, <2>1, <2>2, WriteAreaWF, WriteAreaGood, TokenAssumption
       DEF clear_area
  <2> HIDE DEF s
  <2> QED
    BY <2>1, <2>2, <2>3, WriteAreaGood, TokenAssumption, HandleScreen
       DEF clear_area
<1>10. ASSUME NEW v \in Tokens, screen_align(v) PROVE ScreenInv'
  BY <1>0, <1>g, <1>10, WriteAreaGood, HandleScreen DEF screen_align
<1>11. ASSUME NEW y \in Rows, cursor_position(y) PROVE ScreenInv'
  BY <1>0, <1>g, <1>11, MoveCursorGood, HandleScreen DEF cursor_position
<1>12. ASSUME NEW t \in Rows, NEW b \in Rows, NEW ok, set_margins(t, b, ok)
       PROVE  ScreenInv'
  <2> DEFINE s == IF vt.pending_scroll # 0 THEN update(vt, ok, active) ELSE vt
             m == [s EXCEPT !.scroll_top = t, !.scroll_bot = b]
             d == IF m.cursor_y < t THEN move_cursor(m, t) ELSE m
             e == IF d.cursor_y > b THEN move_cursor(d, b) ELSE d
  <2>0. t \in Nat /\ b \in Nat
    BY DEF Rows
  <2>1. Handle(e)
    BY <1>12 DEF set_margins
  <2>2. WF(s) /\ Good(s, Followed) /\ s.pending_scroll = 0
    <3>1. CASE vt.pending_scroll # 0
      BY <1>0, <1>g, <2>1, <3>1, UpdateWF, UpdateGood, UpdateFields DEF Good, Synced
    <3>2. CASE vt.pending_scroll = 0
      BY <1>0, <1>g, <2>1, <3>2
    <3> QED
      BY <3>1, <3>2
  <2> HIDE DEF s
  <2>3. WF(m)
    BY <2>2, MarginsWF
  <2>4. /\ m.dirty = s.dirty /\ m.shown = s.shown /\ m.pending_scroll = 0
        /\ SameText(m, s) /\ SameRing(m, s)
    BY <2>2 DEF WF, StoreOK, VTermState, SameText, SameRing, RowText
  <2> HIDE DEF m
  <2>5. Good(m, Followed)
    <3>1. MoveTargets(m) = {} /\ MoveTargets(s) = {}
      BY <2>2, <2>3, <2>4, NothingToMove
    <3> QED
      BY <2>2, <2>4, <3>1, RingBottom
         DEF Good, Synced, Due, Marked, Expected, SameText
  <2>6. WF(d) /\ Good(d, Followed)
    BY <2>0, <2>3, <2>5, MoveCursorWF, MoveCursorGood
  <2> HIDE DEF d
  <2>7. Good(e, Followed)
    BY <2>0, <2>6, MoveCursorGood
  <2> QED
    BY <2>1, <2>7, HandleScreen
<1>13. CASE reset
  <2> DEFINE a == [vt EXCEPT !.pending_scroll = 0]
             b == [a EXCEPT !.scroll_top = 0, !.scroll_bot = H - 1]
             c == [b EXCEPT !.cursor_y = 0]
             t == clear_area(c, Rows, Zones)
  <2>1. Handle(t)
    BY <1>13 DEF reset
  <2>2. WF(a) /\ SameRing(a, vt) /\ a.pending_scroll = 0
    <3>1. WF(a)
      BY <1>0, PendingWF
    <3> QED
      BY <1>0, <3>1 DEF WF, StoreOK, VTermState, SameRing
  <2> HIDE DEF a
  <2>3. 0 \in Rows /\ H - 1 \in Rows
    BY SizeAssumption DEF Rows
  <2>4. WF(b) /\ SameRing(b, a) /\ b.pending_scroll = 0
    <3>1. WF(b)
      BY <2>2, <2>3, MarginsWF
    <3> QED
      BY <2>2, <3>1 DEF WF, StoreOK, VTermState, SameRing
  <2> HIDE DEF b
  <2>5. WF(c) /\ SameRing(c, b) /\ c.pending_scroll = 0
    BY <2>3, <2>4
       DEF WF, StoreOK, Permutation, VTermState, total_history_lines, SameRing
  <2> HIDE DEF c
  <2>6. Written(t, c, Rows, Zones, Blank)
    BY <2>5, WriteAreaFields, TokenAssumption DEF clear_area
  <2> HIDE DEF t
  <2>7. Bottom(t)
    BY <1>g, <2>1, <2>2, <2>4, <2>5, <2>6, RingBottom DEF Good, Written
  <2>8. \A y \in Rows : Zones \subseteq t.dirty[y]
    BY <2>6 DEF Written
  <2>9. Synced(t)
    BY <2>5, <2>6, <2>8 DEF Synced, Due, Marked, Exact, Written
  <2> QED
    BY <2>1, <2>7, <2>9, HandleScreen DEF Good
<1>14. ASSUME NEW n \in 1 .. MaxImage, NEW zs \in ZoneSets, NEW v \in Tokens,
              NEW ok, sixel_copy_to_cells(n, zs, v, ok)
       PROVE  ScreenInv'
  <2>1. /\ Handle(ImagePlaced(vt, n, zs, v, ok, active))
        /\ Followed => vt.pending_scroll = 0 \/ ~ScrollsAll(vt, n)
    BY <1>14 DEF sixel_copy_to_cells, Followed
  <2>2. n \in Nat /\ zs \in SUBSET Zones
    BY SizeAssumption
  <2> QED
    BY <1>0, <1>g, <2>1, <2>2, ImagePlacedGood, HandleScreen
<1>15. ASSUME NEW down \in BOOLEAN, NEW ok, historyScroll(down, ok)
       PROVE  ScreenInv'
  <2>1. vt.visual_start_line + (IF down THEN H ELSE -H) \in Int
    BY <1>0
  <2>2. /\ vt' = historyDisplay(vt, vt.visual_start_line + (IF down THEN H ELSE -H),
                                ok, active)
        /\ phase = "idle" /\ phase' = "idle" /\ active' = active
    BY <1>15 DEF historyScroll
  <2>3. vt'.pending_scroll = 0 /\ (Followed => Fresh(vt'))
    BY <1>0, <2>1, <2>2, HistoryDisplayFresh DEF ScreenInv
  <2> QED
    BY <2>2, <2>3 DEF ScreenInv, Followed
<1>16. CASE Activate
  <2> DEFINE d == [y \in Rows |-> Zones]
  <2>1. /\ vt' = requestUpdate(vt, d, TRUE) /\ phase = "idle" /\ phase' = "idle"
        /\ \A y \in Rows : d[y] = Zones
    BY <1>16 DEF Activate
  <2> HIDE DEF d
  <2>2. Painted(vt', vt, d, TRUE)
    BY <1>0, <2>1, RequestUpdatePaints
  <2>3. \A y \in Rows : ViewText(vt', y) = ViewText(vt, y)
    BY <2>2, PaintedView
  <2>4. Fresh(vt')
    <3>1. \A y \in Rows, z \in Zones : vt'.shown[y][z] = ViewText(vt, y)[z]
      BY <2>1, <2>2 DEF Painted
    <3>2. \A z \in Exact : z \in Zones
      BY DEF Exact
    <3> QED
      BY <2>3, <3>1, <3>2 DEF Fresh
  <2> QED
    BY <2>1, <2>2, <2>4 DEF ScreenInv, Painted
<1>17. CASE Deactivate
  <2>1. /\ phase = "idle" /\ phase' = "idle" /\ active' = FALSE
        /\ vt'.pending_scroll = vt.pending_scroll
    BY <1>0, <1>17 DEF Deactivate, WF, StoreOK, VTermState
  <2> QED
    BY <2>1 DEF ScreenInv, Followed
<1>18. CASE UNCHANGED vars
  BY <1>18 DEF vars, ScreenInv, Followed
<1> QED
  BY <1>1, <1>2, <1>3, <1>4, <1>5, <1>6, <1>7, <1>8, <1>9, <1>10, <1>11,
     <1>12, <1>13, <1>14, <1>15, <1>16, <1>17, <1>18 DEF Next

\* While bytes are processed the view is at the end of the history, for every
\* image and every scroll.
THEOREM ViewStaysAtBottom ==
  ASSUME NoOverflow
  PROVE  Spec => []ViewAtBottom
<1>1. Init => Inv /\ ScreenInv
  BY InitInv, InitScreen
<1>2. Inv /\ ScreenInv /\ [Next]_vars => (Inv /\ ScreenInv)'
  BY StepInv, StepScreen
<1>3. Inv /\ ScreenInv => ViewAtBottom
  BY DEF ScreenInv, Good, Bottom, ViewAtBottom
<1> QED
  BY <1>1, <1>2, <1>3, PTL DEF Spec

\* In the middle of input() the rows that are not marked will be right once
\* the postponed scroll has moved the pixels, and the rows that this move
\* does not bring are marked.
THEOREM PostponedScrollIsTracked ==
  ASSUME NoOverflow, ~WideChars, ~TallImages
  PROVE  Spec => []PostponedSync
<1>1. Init => Inv /\ ScreenInv
  BY InitInv, InitScreen
<1>2. Inv /\ ScreenInv /\ [Next]_vars => (Inv /\ ScreenInv)'
  BY StepInv, StepScreen
<1>3. Inv /\ ScreenInv => PostponedSync
  BY DEF ScreenInv, Followed, Good, Synced, Due, Marked, Exact, PostponedSync, Region
<1> QED
  BY <1>1, <1>2, <1>3, PTL DEF Spec

\* Between two calls of input() the columns that keep their marks show the
\* text of the view, double width characters or not.
THEOREM ExactColumnsShowView ==
  ASSUME NoOverflow, ~TallImages
  PROVE  Spec => [](phase = "idle" /\ active => Fresh(vt))
<1>1. Init => Inv /\ ScreenInv
  BY InitInv, InitScreen
<1>2. Inv /\ ScreenInv /\ [Next]_vars => (Inv /\ ScreenInv)'
  BY StepInv, StepScreen
<1>3. Inv /\ ScreenInv => (phase = "idle" /\ active => Fresh(vt))
  BY DEF ScreenInv, Followed
<1> QED
  BY <1>1, <1>2, <1>3, PTL DEF Spec

\* Between two calls of input() the screen of the active shell is the view of
\* its store.
THEOREM ScreenShowsView ==
  ASSUME NoOverflow, ~WideChars, ~TallImages
  PROVE  Spec => []DisplayMatchesBuffer
<1>1. Init => Inv /\ ScreenInv
  BY InitInv, InitScreen
<1>2. Inv /\ ScreenInv /\ [Next]_vars => (Inv /\ ScreenInv)'
  BY StepInv, StepScreen
<1>3. Inv /\ ScreenInv => DisplayMatchesBuffer
  <2> SUFFICES ASSUME Inv, ScreenInv, phase = "idle", active, NEW y \in Rows
               PROVE  vt.shown[y] = ViewText(vt, y)
    BY DEF DisplayMatchesBuffer
  <2>1. WF(vt)
    BY InvWF
  <2>2. \A z \in Zones : vt.shown[y][z] = ViewText(vt, y)[z]
    BY DEF ScreenInv, Followed, Fresh, Exact
  <2>3. vt.shown[y] \in [Zones -> Tokens \cup {Foreign}]
    BY <2>1 DEF WF, StoreOK, VTermState
  <2>4. ViewText(vt, y) \in [Zones -> Tokens]
    BY <2>1, GetLineType DEF ViewText, WF, StoreOK, VTermState, Line
  <2> QED
    BY <2>2, <2>3, <2>4
<1> QED
  BY <1>1, <1>2, <1>3, PTL DEF Spec

-----------------------------------------------------------------------------
(* Images *)

\* The store and the cursor's row after room was made for an image.
LEMMA ImageText ==
  ASSUME NoOverflow, NEW s, WF(s), NEW n \in Nat, NEW zs \in SUBSET Zones,
         NEW v \in Tokens, NEW ok, NEW act
  PROVE  LET need == Smaller(n - ImageRoom(s), s.scroll_bot - s.scroll_top + 1)
             scr  == scroll_region(s, s.scroll_top, s.scroll_bot, need)
             cur  == IF n <= ImageRoom(s) THEN s.cursor_y
                     ELSE IF s.cursor_y >= s.scroll_top + need
                          THEN s.cursor_y - need ELSE s.scroll_top
             t    == ImagePlaced(s, n, zs, v, ok, act)
         IN  /\ t.pending_scroll \in {0, s.pending_scroll}
             /\ \A y \in Rows \ (cur .. cur + n - 1) :
                  RowText(t, y) = IF n <= ImageRoom(s) THEN RowText(s, y)
                                                       ELSE RowText(scr, y)
<1> DEFINE room == ImageRoom(s)
           mx   == s.scroll_bot - s.scroll_top + 1
           need == Smaller(n - room, mx)
           scr  == scroll_region(s, s.scroll_top, s.scroll_bot, need)
           up   == IF n > room THEN update(scr, ok, act) ELSE s
           cur  == IF n <= room THEN s.cursor_y
                   ELSE IF s.cursor_y >= s.scroll_top + need
                        THEN s.cursor_y - need ELSE s.scroll_top
           end  == Smaller(cur + n, H)
           w    == WriteArea(up, cur .. end - 1, zs, v)
           t    == ImagePlaced(s, n, zs, v, ok, act)
<1>1. /\ s.cursor_y \in Rows /\ s.scroll_top \in Rows /\ s.scroll_bot \in Rows
      /\ s.cursor_y \in Nat /\ s.scroll_top \in Nat /\ s.scroll_bot \in Nat
  BY DEF WF, StoreOK, VTermState, Rows
<1>2. need \in Int /\ room \in Int
  BY <1>1 DEF Rows, Smaller, ImageRoom
<1>3. t = move_cursor(w, end)
  BY DEF ImagePlaced
<1>4. /\ cur .. end - 1 \in SUBSET Rows
      /\ cur .. end - 1 \subseteq cur .. cur + n - 1
  <2>1. cur \in Nat
    BY <1>1, <1>2
  <2>2. end \in Int /\ end <= H /\ end <= cur + n
    BY <2>1, SizeAssumption DEF Smaller
  <2> HIDE DEF cur, end
  <2> QED
    BY <2>1, <2>2, SizeAssumption DEF Rows
<1>5. WF(scr)
  BY <1>1, <1>2, ScrollRegionWF
<1>6. /\ WF(up)
      /\ up.pending_scroll \in {0, s.pending_scroll}
      /\ \A y \in Rows : RowText(up, y) = IF n <= room THEN RowText(s, y)
                                                       ELSE RowText(scr, y)
  <2>1. CASE n > room
    <3> HIDE DEF scr
    <3>1. /\ WF(up) /\ up.pending_scroll = 0
          /\ up.text = scr.text /\ up.linenumbers = scr.linenumbers
      BY <1>5, <2>1, UpdateWF, UpdateFields
    <3>2. ~(n <= room)
      BY <1>2, <2>1
    <3> HIDE DEF up, room
    <3> QED
      BY <3>1, <3>2 DEF RowText
  <2>2. CASE ~(n > room)
    <3>1. n <= room
      BY <1>2, <2>2
    <3> QED
      BY <2>2, <3>1
  <2> QED
    BY <2>1, <2>2
<1> SUFFICES /\ t.pending_scroll \in {0, s.pending_scroll}
             /\ \A y \in Rows \ (cur .. cur + n - 1) :
                  RowText(t, y) = IF n <= room THEN RowText(s, y)
                                               ELSE RowText(scr, y)
  OBVIOUS
<1> HIDE DEF up, cur, end, scr, room
<1>7. Written(w, up, cur .. end - 1, zs, v) /\ WF(w)
  BY <1>4, <1>6, WriteAreaFields, WriteAreaWF
<1> HIDE DEF w, t
<1>8. SameScreen(t, w) /\ SameText(t, w)
  BY <1>3, <1>7, MoveCursorSame
<1> QED
  BY <1>4, <1>6, <1>7, <1>8 DEF Written, SameScreen, SameText

LEMMA ImagePending ==
  ASSUME NoOverflow, NEW s, WF(s), NEW n \in Nat, NEW zs \in SUBSET Zones,
         NEW v \in Tokens, NEW ok, NEW act
  PROVE  ImagePlaced(s, n, zs, v, ok, act).pending_scroll \in {0, s.pending_scroll}
BY ImageText

\* An image no taller than the margins' region, printed inside it, leaves the
\* rows outside the margins alone.
LEMMA ImageInside ==
  ASSUME NoOverflow, NEW s, WF(s), NEW n \in Nat, n > 0,
         s.cursor_y \in s.scroll_top .. s.scroll_bot,
         n <= s.scroll_bot - s.scroll_top + 1,
         NEW v \in Tokens, NEW ok, NEW act,
         NEW y \in Rows \ (s.scroll_top .. s.scroll_bot)
  PROVE  RowText(ImagePlaced(s, n, Zones, v, ok, act), y) = RowText(s, y)
<1> DEFINE room == ImageRoom(s)
           mx   == s.scroll_bot - s.scroll_top + 1
           need == Smaller(n - room, mx)
           scr  == scroll_region(s, s.scroll_top, s.scroll_bot, need)
           cur  == IF n <= room THEN s.cursor_y
                   ELSE IF s.cursor_y >= s.scroll_top + need
                        THEN s.cursor_y - need ELSE s.scroll_top
           t    == ImagePlaced(s, n, Zones, v, ok, act)
<1>1. /\ s.cursor_y \in Int /\ s.scroll_top \in Int /\ s.scroll_bot \in Int
      /\ s.scroll_top \in Rows /\ s.scroll_bot \in Rows /\ y \in Int
      /\ s.scroll_top <= s.cursor_y /\ s.cursor_y <= s.scroll_bot
  BY DEF WF, StoreOK, VTermState, Rows
<1>2. room = s.scroll_bot + 1 - s.cursor_y
  BY DEF ImageRoom
<1> HIDE DEF room
<1>3. n > room => need = n - room /\ need > 0 /\ need < mx
  BY <1>1, <1>2 DEF Smaller
<1> HIDE DEF need
<1>4. cur .. cur + n - 1 \subseteq s.scroll_top .. s.scroll_bot
  BY <1>1, <1>2, <1>3
<1>5. y \in Rows \ (cur .. cur + n - 1)
  BY <1>4
<1>6. n > room => RowText(scr, y) = RowText(s, y)
  <2> SUFFICES ASSUME n > room PROVE RowText(scr, y) = RowText(s, y)
    OBVIOUS
  <2>1. need \in Int /\ need # 0 /\ Absolute(need) < s.scroll_bot - s.scroll_top + 1
    BY <1>1, <1>2, <1>3 DEF Absolute
  <2>2. Shifted(scr, s, s.scroll_top, s.scroll_bot, need)
    BY <1>1, <2>1, ScrollRegionShifts
  <2> QED
    BY <2>2 DEF Shifted
<1>7. Zones \in SUBSET Zones /\ (n <= room \/ n > room)
  BY <1>1, <1>2
<1>8. RowText(t, y) = IF n <= room THEN RowText(s, y) ELSE RowText(scr, y)
  BY <1>5, <1>7, ImageText DEF need, room
<1> QED
  BY <1>1, <1>2, <1>6, <1>7, <1>8

\* An image that fits the margins' region never paints outside it.
THEOREM ImagesStayInMargins ==
  ASSUME NoOverflow
  PROVE  Spec => []ImageStaysInMargins
<1>1. Init => Inv
  BY InitInv
<1>2. Inv /\ [Next]_vars => Inv'
  BY StepInv
<1>3. Inv => ImageStaysInMargins
  <2> SUFFICES ASSUME Inv, vt.cursor_y \in Region,
                      NEW n \in 1 .. Smaller(MaxImage, vt.scroll_bot - vt.scroll_top + 1),
                      NEW v \in Tokens, NEW y \in Rows \ Region
               PROVE  RowText(ImagePlaced(vt, n, Zones, v, TRUE, active), y)
                        = RowText(vt, y)
    BY DEF ImageStaysInMargins
  <2>1. WF(vt)
    BY InvWF
  <2>2. vt.scroll_top \in Int /\ vt.scroll_bot \in Int
    BY <2>1 DEF WF, StoreOK, VTermState, Rows
  <2>3. n \in Nat /\ n > 0 /\ n <= vt.scroll_bot - vt.scroll_top + 1
    BY <2>2, SizeAssumption DEF Smaller
  <2>4. /\ vt.cursor_y \in vt.scroll_top .. vt.scroll_bot
        /\ y \in Rows \ (vt.scroll_top .. vt.scroll_bot)
    BY DEF Region
  <2> QED
    <3>1. \A ok, act : RowText(ImagePlaced(vt, n, Zones, v, ok, act), y) = RowText(vt, y)
      BY <2>1, <2>3, <2>4, ImageInside
    <3> QED
      BY <3>1
<1> QED
  BY <1>1, <1>2, <1>3, PTL DEF Spec

-----------------------------------------------------------------------------
(* What a scroll does to the text *)

\* If the postponed scroll of t is not that of s, the margins' region has
\* moved by the difference, and nothing else.
Moved(t, s) ==
  LET R == s.scroll_top .. s.scroll_bot
      n == t.pending_scroll - s.pending_scroll
  IN  t.pending_scroll # s.pending_scroll =>
        /\ t.cursor_y = s.cursor_y
        /\ \A y \in Rows \ R : RowText(t, y) = RowText(s, y)
        /\ s.scroll_top < s.scroll_bot =>
             \A y \in R : y + n \in R => RowText(t, y) = RowText(s, y + n)

LEMMA ScrollRegionMoves ==
  ASSUME NEW s, WF(s), NEW start \in Rows, NEW end \in Rows, NEW n \in Int,
         start < end => Absolute(n) <= end - start
  PROVE  Moved(scroll_region(s, start, end, n), s)
<1> DEFINE t == scroll_region(s, start, end, n)
<1>0. start \in Int /\ end \in Int /\ s.pending_scroll \in Int
  BY DEF Rows, WF, StoreOK, VTermState
<1>1. CASE n = 0 \/ start > end
  BY <1>1 DEF scroll_region, Moved
<1>2. CASE n # 0 /\ Absolute(n) < end - start + 1
  <2>1. Shifted(t, s, start, end, n)
    BY <1>2, ScrollRegionShifts
  <2> HIDE DEF t
  <2>2. t.pending_scroll # s.pending_scroll =>
          /\ start = s.scroll_top /\ end = s.scroll_bot
          /\ t.pending_scroll - s.pending_scroll = n
    BY <1>0, <2>1 DEF Shifted
  <2>3. Moved(t, s)
    BY <2>1, <2>2 DEF Shifted, Moved
  <2> QED
    BY <2>3 DEF t
<1>3. CASE n # 0 /\ start = end
  <2>1. Absolute(n) >= end - start + 1 /\ start <= end
    BY <1>0, <1>3 DEF Absolute
  <2>2. /\ SameText(t, s) /\ t.cursor_y = s.cursor_y
        /\ start # s.scroll_top \/ end # s.scroll_bot =>
             t.pending_scroll = s.pending_scroll
    BY <2>1, ScrollRegionWhole
  <2> HIDE DEF t
  <2>3. start = s.scroll_top /\ end = s.scroll_bot => ~(s.scroll_top < s.scroll_bot)
    <3>1. ~(start < start)
      BY <1>0
    <3> QED
      BY <1>3, <3>1
  <2>4. Moved(t, s)
    BY <2>2, <2>3 DEF Moved, SameText
  <2> QED
    BY <2>4 DEF t
<1>4. \/ n = 0 \/ start > end
      \/ n # 0 /\ Absolute(n) < end - start + 1
      \/ n # 0 /\ start = end
  BY <1>0 DEF Absolute
<1> QED
  BY <1>1, <1>2, <1>3, <1>4

LEMMA LinefeedMoves ==
  ASSUME NEW s, WF(s)
  PROVE  Moved(linefeed(s), s)
<1>1. s.scroll_top \in Rows /\ s.scroll_bot \in Rows
  BY DEF WF, StoreOK, VTermState
<1>2. s.scroll_top < s.scroll_bot => Absolute(1) <= s.scroll_bot - s.scroll_top
  BY <1>1 DEF Absolute, Rows
<1>3. Moved(scroll_region(s, s.scroll_top, s.scroll_bot, 1), s)
  BY <1>1, <1>2, ScrollRegionMoves
<1>4. Moved(move_cursor(s, s.cursor_y + 1), s)
  BY MoveCursorSame DEF SameScreen, Moved
<1> QED
  BY <1>3, <1>4 DEF linefeed

\* Writing on the row of the cursor, after the scroll that made room.
LEMMA CursorRowWritten ==
  ASSUME NEW r, WF(r), NEW zs \in SUBSET Zones, NEW v \in Tokens
  PROVE  LET t == WriteArea(r, {r.cursor_y}, zs, v)
         IN  /\ t.pending_scroll = r.pending_scroll /\ t.cursor_y = r.cursor_y
             /\ \A y \in Rows \ {t.cursor_y} : RowText(t, y) = RowText(r, y)
<1> DEFINE t == WriteArea(r, {r.cursor_y}, zs, v)
<1>1. {r.cursor_y} \in SUBSET Rows
  BY DEF WF, StoreOK, VTermState
<1>2. Written(t, r, {r.cursor_y}, zs, v)
  BY <1>1, WriteAreaFields
<1> HIDE DEF t
<1>3. /\ t.pending_scroll = r.pending_scroll /\ t.cursor_y = r.cursor_y
      /\ \A y \in Rows \ {t.cursor_y} : RowText(t, y) = RowText(r, y)
  BY <1>2 DEF Written
<1> QED
  BY <1>3 DEF t

\* The body of ScrollShiftsRegion.
ShiftsRegion ==
  LET n == vt'.pending_scroll - vt.pending_scroll
      Kept(y) == {RowText(vt, y)} \cup
        (IF y = vt.cursor_y THEN Shortened(RowText(vt, y)) ELSE {})
  IN  \A y \in Rows \ {vt'.cursor_y} :
        /\ y \notin Region => RowText(vt', y) = RowText(vt, y)
        /\ y \in Region /\ y + n \in Region /\ vt.scroll_top < vt.scroll_bot
             => RowText(vt', y) \in Kept(y + n)

\* The rows other than the cursor's are those of r, to which vt has moved.
LEMMA MovedShifts ==
  ASSUME NEW r, Moved(r, vt), vt'.pending_scroll # vt.pending_scroll,
         vt'.pending_scroll = r.pending_scroll, vt'.cursor_y = r.cursor_y,
         \A y \in Rows \ {vt'.cursor_y} : RowText(vt', y) = RowText(r, y)
  PROVE  ShiftsRegion
BY DEF Moved, ShiftsRegion, Region

LEMMA StepShifts ==
  ASSUME NoOverflow, Inv, ScreenInv, Next, Scrolls
  PROVE  ShiftsRegion
<1> USE DEF ZoneSets
<1>0. /\ WF(vt)
      /\ vt.cursor_y \in Rows /\ vt.scroll_top \in Rows /\ vt.scroll_bot \in Rows
      /\ total_history_lines(vt) \in Int
      /\ Rows \subseteq Int /\ H \in Int
      /\ phase' = "input" /\ vt'.pending_scroll # 0
      /\ vt'.pending_scroll # vt.pending_scroll
  BY InvWF, SizeAssumption
     DEF WF, StoreOK, VTermState, total_history_lines, Rows, Scrolls
<1>d. ASSUME Moved(vt', vt) PROVE ShiftsRegion
  BY <1>0, <1>d, MovedShifts
<1>w. ASSUME NEW ys \in SUBSET Rows, NEW zs \in SUBSET Zones, NEW v \in Tokens,
             vt' = WriteArea(vt, ys, zs, v)
      PROVE  ShiftsRegion
  <2>1. vt'.pending_scroll = vt.pending_scroll
    BY <1>0, <1>w, WriteAreaPending
  <2> QED
    BY <1>0, <2>1
<1>1. ASSUME NEW ok, BeginInput(ok) PROVE ShiftsRegion
  BY <1>0, <1>1, HistoryDisplayFresh DEF BeginInput, ScreenInv
<1>2. ASSUME NEW ok, EndInput(ok) PROVE ShiftsRegion
  BY <1>0, <1>2 DEF EndInput
<1>3. CASE lf
  BY <1>0, <1>d, <1>3, LinefeedMoves DEF lf, Handle
<1>4. CASE index_up
  <2>1. /\ vt.scroll_top < vt.scroll_bot =>
             Absolute(-1) <= vt.scroll_bot - vt.scroll_top
        /\ -1 \in Int
    <3>1. vt.scroll_top \in Int /\ vt.scroll_bot \in Int
      BY <1>0
    <3>2. Absolute(-1) = 1
      BY AbsoluteMinus
    <3>3. -1 \in Int
      OBVIOUS
    <3> QED
      BY <3>1, <3>2, <3>3
  <2>2. CASE vt.cursor_y > vt.scroll_top
    BY <1>0, <1>4, <2>2, MoveCursorSame DEF index_up, Handle, SameScreen
  <2>3. CASE ~(vt.cursor_y > vt.scroll_top)
    BY <1>0, <1>d, <1>4, <2>1, <2>3, ScrollRegionMoves DEF index_up, Handle
  <2> QED
    BY <2>2, <2>3
<1>p. ASSUME NEW r, WF(r), Moved(r, vt), NEW zs \in SUBSET Zones, NEW v \in Tokens,
             vt' = WriteArea(r, {r.cursor_y}, zs, v)
      PROVE  ShiftsRegion
  <2> DEFINE t == WriteArea(r, {r.cursor_y}, zs, v)
  <2>0. /\ t.pending_scroll = r.pending_scroll /\ t.cursor_y = r.cursor_y
        /\ \A y \in Rows \ {t.cursor_y} : RowText(t, y) = RowText(r, y)
    BY <1>p, CursorRowWritten
  <2>1. /\ vt'.pending_scroll = r.pending_scroll /\ vt'.cursor_y = r.cursor_y
        /\ \A y \in Rows \ {vt'.cursor_y} : RowText(vt', y) = RowText(r, y)
    <3>1. vt' = t
      BY <1>p
    <3> HIDE DEF t
    <3> QED
      BY <2>0, <3>1
  <2> QED
    BY <1>0, <1>p, <2>1, MovedShifts
<1>5. ASSUME NEW zs \in ZoneSets, NEW v \in Tokens, NEW wrap \in BOOLEAN,
             do_normal_char(zs, v, wrap)
      PROVE  ShiftsRegion
  <2> DEFINE s == IF wrap THEN linefeed(vt) ELSE vt
  <2>1. vt' = WriteArea(s, {s.cursor_y}, zs, v)
    BY <1>5 DEF do_normal_char, Handle
  <2>2. WF(s) /\ Moved(s, vt)
    BY <1>0, LinefeedWF, LinefeedMoves DEF Moved
  <2> HIDE DEF s
  <2>3. zs \in SUBSET Zones
    OBVIOUS
  <2> QED
    BY <1>p, <2>1, <2>2, <2>3
<1>6. ASSUME NEW zs \in ZoneSets, NEW v \in Tokens, wide_char_wraps(zs, v)
      PROVE  ShiftsRegion
  <2> DEFINE cy   == vt.cursor_y
             last == {z \in Zones : \A x \in Zones : x <= z}
             t == Fill(vt, {vt.linenumbers[cy]}, last, Blank)
             b == [vt EXCEPT !.text = t]
             s == linefeed(b)
  <2>1. vt' = WriteArea(s, {s.cursor_y}, zs, v) /\ WideChars
    BY <1>6 DEF wide_char_wraps, Handle
  <2>2. t \in [Lines -> Line]
    BY <1>0, FillType, TokenAssumption
  <2>3. \A y \in Rows \ {cy} : t[vt.linenumbers[y]] = RowText(vt, y)
    BY <1>0, RowLines DEF Fill, RowText
  <2>4. t[vt.linenumbers[cy]] \in {RowText(vt, cy)} \cup Shortened(RowText(vt, cy))
    <3>1. t[vt.linenumbers[cy]] =
            [z \in Zones |-> IF z \in last THEN Blank ELSE RowText(vt, cy)[z]]
      BY <1>0, RowLines DEF Fill, RowText
    <3>2. RowText(vt, cy) \in [Zones -> Tokens]
      BY <1>0, RowLines
    <3>3. CASE last = {}
      BY <3>1, <3>2, <3>3
    <3>4. CASE last # {}
      <4>1. PICK z \in Zones : last = {z}
        <5>1. PICK z \in last : TRUE
          BY <3>4
        <5>2. \A x \in last : x = z
          BY TokenAssumption
        <5> QED
          BY <5>1, <5>2
      <4>2. t[vt.linenumbers[cy]] = [RowText(vt, cy) EXCEPT ![z] = Blank]
        BY <3>1, <3>2, <4>1
      <4>3. z \in DOMAIN RowText(vt, cy)
        BY <3>2
      <4> QED
        BY <2>1, <4>2, <4>3 DEF Shortened
    <3> QED
      BY <3>3, <3>4
  <2> HIDE DEF t
  <2>5. WF(b)
    BY <1>0, <2>2 DEF WF, StoreOK, Permutation, VTermState, total_history_lines
  <2>6. /\ b.cursor_y = cy /\ b.pending_scroll = vt.pending_scroll
        /\ b.scroll_top = vt.scroll_top /\ b.scroll_bot = vt.scroll_bot
        /\ b.linenumbers = vt.linenumbers /\ b.text = t
    BY <1>0 DEF WF, StoreOK, VTermState
  <2> HIDE DEF b
  <2>7. WF(s) /\ Moved(s, b)
    BY <2>5, LinefeedWF, LinefeedMoves
  <2> HIDE DEF s
  <2>8. /\ vt'.pending_scroll = s.pending_scroll /\ vt'.cursor_y = s.cursor_y
        /\ \A y \in Rows \ {vt'.cursor_y} : RowText(vt', y) = RowText(s, y)
    <3>1. zs \in SUBSET Zones
      OBVIOUS
    <3> DEFINE w == WriteArea(s, {s.cursor_y}, zs, v)
    <3>2. /\ w.pending_scroll = s.pending_scroll /\ w.cursor_y = s.cursor_y
          /\ \A y \in Rows \ {w.cursor_y} : RowText(w, y) = RowText(s, y)
      BY <2>7, <3>1, CursorRowWritten
    <3>3. vt' = w
      BY <2>1
    <3> HIDE DEF w
    <3> QED
      BY <3>2, <3>3
  <2>9. /\ vt'.cursor_y = cy
        /\ \A y \in Rows \ Region : RowText(s, y) = RowText(b, y)
        /\ vt.scroll_top < vt.scroll_bot =>
             \A y \in Region : y + (vt'.pending_scroll - vt.pending_scroll) \in Region =>
               RowText(s, y) = RowText(b, y + (vt'.pending_scroll - vt.pending_scroll))
    BY <1>0, <2>6, <2>7, <2>8 DEF Moved, Region
  <2>10. /\ \A y \in Rows \ {cy} : RowText(b, y) = RowText(vt, y)
         /\ RowText(b, cy) \in {RowText(vt, cy)} \cup Shortened(RowText(vt, cy))
    BY <2>3, <2>4, <2>6 DEF RowText
  <2>11. \A y \in Region : y \in Rows
    BY <1>0, SizeAssumption DEF Region, Rows
  <2> QED
    BY <2>8, <2>9, <2>10, <2>11 DEF ShiftsRegion
<1>7. ASSUME NEW zs \in ZoneSets, NEW v \in Tokens, edit_row(zs, v)
      PROVE  ShiftsRegion
  BY <1>0, <1>w, <1>7 DEF edit_row, Handle
<1>8. ASSUME NEW n \in 1 .. H, insert_line(n) \/ delete_line(n)
      PROVE  ShiftsRegion
  <2>1. vt.cursor_y .. vt.scroll_bot \in SUBSET Rows /\ Zones \in SUBSET Zones
    BY <1>0, SizeAssumption DEF Rows
  <2>2. n \in Int /\ -n \in Int
    OBVIOUS
  <2>3. CASE n >= vt.scroll_bot - vt.cursor_y + 1
    BY <1>w, <1>8, <2>1, <2>3, TokenAssumption
       DEF insert_line, delete_line, clear_area, Handle
  <2>4. CASE ~(n >= vt.scroll_bot - vt.cursor_y + 1)
    <3>1. /\ Absolute(n) <= vt.scroll_bot - vt.cursor_y
          /\ Absolute(-n) <= vt.scroll_bot - vt.cursor_y
      <4>1. Absolute(n) = n /\ Absolute(-n) = n
        BY DEF Absolute
      <4>2. vt.cursor_y \in Int /\ vt.scroll_bot \in Int
        BY <1>0
      <4> QED
        BY <2>4, <4>1, <4>2
    <3> QED
      BY <1>0, <1>d, <1>8, <2>2, <2>4, <3>1, ScrollRegionMoves
         DEF insert_line, delete_line, Handle
  <2> QED
    BY <2>3, <2>4
<1>9. ASSUME NEW param \in 0 .. 2, NEW zs \in ZoneSets, erase_display(param, zs)
      PROVE  ShiftsRegion
  <2> DEFINE part == clear_area(vt, {vt.cursor_y}, zs)
             s == IF param = 2 THEN vt ELSE part
             rest == CASE param = 0 -> vt.cursor_y + 1 .. H - 1
                       [] param = 1 -> 0 .. vt.cursor_y - 1
                       [] param = 2 -> Rows
  <2>1. vt' = clear_area(s, rest, Zones)
    BY <1>9 DEF erase_display, Handle
  <2>2. rest \in SUBSET Rows /\ {vt.cursor_y} \in SUBSET Rows
        /\ zs \in SUBSET Zones /\ Zones \in SUBSET Zones
    <3>1. vt.cursor_y + 1 .. H - 1 \subseteq Rows /\ 0 .. vt.cursor_y - 1 \subseteq Rows
      BY <1>0 DEF Rows
    <3>2. param = 0 \/ param = 1 \/ param = 2
      OBVIOUS
    <3> QED
      BY <1>0, <3>1, <3>2
  <2> HIDE DEF rest
  <2>3. WF(s) /\ s.pending_scroll = vt.pending_scroll
    BY <1>0, <2>2, WriteAreaWF, WriteAreaPending, TokenAssumption DEF clear_area
  <2> HIDE DEF s
  <2>4. vt'.pending_scroll = s.pending_scroll
    BY <2>1, <2>2, <2>3, WriteAreaPending, TokenAssumption DEF clear_area
  <2> QED
    BY <1>0, <2>3, <2>4
<1>10. ASSUME NEW v \in Tokens, screen_align(v) PROVE ShiftsRegion
  BY <1>0, <1>w, <1>10 DEF screen_align, Handle
<1>11. ASSUME NEW y \in Rows, cursor_position(y) PROVE ShiftsRegion
  BY <1>0, <1>11, MoveCursorSame DEF cursor_position, Handle, SameScreen
<1>12. ASSUME NEW t \in Rows, NEW b \in Rows, NEW ok, set_margins(t, b, ok)
       PROVE  ShiftsRegion
  <2> DEFINE s == IF vt.pending_scroll # 0 THEN update(vt, ok, active) ELSE vt
             m == [s EXCEPT !.scroll_top = t, !.scroll_bot = b]
             d == IF m.cursor_y < t THEN move_cursor(m, t) ELSE m
             e == IF d.cursor_y > b THEN move_cursor(d, b) ELSE d
  <2>0. t \in Nat /\ b \in Nat
    BY DEF Rows
  <2>1. vt' = e
    BY <1>12 DEF set_margins, Handle
  <2>2. WF(s) /\ s.pending_scroll = 0
    BY <1>0, UpdateWF, UpdateFields
  <2> HIDE DEF s
  <2>3. WF(m) /\ m.pending_scroll = 0
    <3>1. WF(m)
      BY <2>2, MarginsWF
    <3> QED
      BY <2>2, <3>1 DEF WF, StoreOK, VTermState
  <2> HIDE DEF m
  <2>4. WF(d) /\ d.pending_scroll = 0
    BY <2>0, <2>3, MoveCursorWF, MoveCursorSame DEF SameScreen
  <2> HIDE DEF d
  <2>5. e.pending_scroll = 0
    BY <2>0, <2>4, MoveCursorSame DEF SameScreen
  <2> QED
    BY <1>0, <2>1, <2>5
<1>13. CASE reset
  <2> DEFINE a == [vt EXCEPT !.pending_scroll = 0]
             b == [a EXCEPT !.scroll_top = 0, !.scroll_bot = H - 1]
             c == [b EXCEPT !.cursor_y = 0]
  <2>1. vt' = clear_area(c, Rows, Zones)
    BY <1>13 DEF reset, Handle
  <2>2. WF(a) /\ a.pending_scroll = 0
    <3>1. WF(a)
      BY <1>0, PendingWF
    <3> QED
      BY <1>0, <3>1 DEF WF, StoreOK, VTermState
  <2> HIDE DEF a
  <2>3. 0 \in Rows /\ H - 1 \in Rows
    BY SizeAssumption DEF Rows
  <2>4. WF(b) /\ b.pending_scroll = 0
    <3>1. WF(b)
      BY <2>2, <2>3, MarginsWF
    <3> QED
      BY <2>2, <3>1 DEF WF, StoreOK, VTermState
  <2> HIDE DEF b
  <2>5. WF(c) /\ c.pending_scroll = 0
    BY <2>3, <2>4
       DEF WF, StoreOK, Permutation, VTermState, total_history_lines
  <2> HIDE DEF c
  <2>6. vt'.pending_scroll = 0
    BY <2>1, <2>5, WriteAreaPending, TokenAssumption DEF clear_area
  <2> QED
    BY <1>0, <2>6
<1>14. ASSUME NEW n \in 1 .. MaxImage, NEW zs \in ZoneSets, NEW v \in Tokens,
              NEW ok, sixel_copy_to_cells(n, zs, v, ok)
       PROVE  ShiftsRegion
  <2>1. vt' = ImagePlaced(vt, n, zs, v, ok, active)
    BY <1>14 DEF sixel_copy_to_cells, Handle
  <2>2. n \in Nat /\ zs \in SUBSET Zones
    BY SizeAssumption
  <2>3. vt'.pending_scroll \in {0, vt.pending_scroll}
    BY <1>0, <2>1, <2>2, ImagePending
  <2> QED
    BY <1>0, <2>3
<1>15. ASSUME NEW down \in BOOLEAN, NEW ok, historyScroll(down, ok)
       PROVE  ShiftsRegion
  BY <1>0, <1>15 DEF historyScroll
<1>16. CASE Activate
  BY <1>0, <1>16 DEF Activate
<1>17. CASE Deactivate
  BY <1>0, <1>17 DEF Deactivate
<1> QED
  BY <1>1, <1>2, <1>3, <1>4, <1>5, <1>6, <1>7, <1>8, <1>9, <1>10, <1>11,
     <1>12, <1>13, <1>14, <1>15, <1>16, <1>17 DEF Next

\* A scroll of the margins' region moves its rows by the amount that the
\* screen will be moved by, and leaves the rows outside the margins alone.
THEOREM ScrollsShift ==
  ASSUME NoOverflow
  PROVE  Spec => ScrollShiftsRegion
<1>1. Init => Inv /\ ScreenInv
  BY InitInv, InitScreen
<1>2. Inv /\ ScreenInv /\ [Next]_vars => (Inv /\ ScreenInv)'
  BY StepInv, StepScreen
<1>3. Inv /\ ScreenInv /\ [Next]_vars => [Scrolls => ShiftsRegion]_vars
  BY StepShifts
<1>4. ScrollShiftsRegion <=> [][Scrolls => ShiftsRegion]_vars
  BY DEF ScrollShiftsRegion, ShiftsRegion
<1> QED
  BY <1>1, <1>2, <1>3, <1>4, PTL DEF Spec

-----------------------------------------------------------------------------
(* The ring and the log: slots of a ring, the log read from it, and what a *)
(* scroll adds to it                                                       *)

\* An integer is its multiple of m and its remainder.
LEMMA DivMod ==
  ASSUME NEW a \in Int, NEW m \in Int, m > 0
  PROVE  a = m * (a \div m) + (a % m) /\ a \div m \in Int
BY Z3

LEMMA ModParts ==
  ASSUME NEW a \in Nat, NEW m \in Nat \ {0}
  PROVE  a \div m \in Nat /\ a % m \in 0 .. m - 1 /\ a = m * (a \div m) + (a % m)
<1>1. a \div m >= 0
  OBVIOUS
<1>2. a = m * (a \div m) + (a % m) /\ a \div m \in Int
  BY DivMod
<1>3. a % m \in 0 .. m - 1
  BY ModRange
<1> DEFINE q == a \div m
<1>4. q \in Int /\ q >= 0
  BY <1>1, <1>2
<1> HIDE DEF q
<1>5. q \in Nat
  BY <1>4
<1> QED BY <1>2, <1>3, <1>5 DEF q

LEMMA Distribute ==
  ASSUME NEW m \in Int, NEW u \in Int, NEW v \in Int, NEW q \in Int
  PROVE  m * (u - v - q) = m * u - m * v - m * q
BY Z3

LEMMA Multiple ==
  ASSUME NEW m \in Nat \ {0}, NEW d \in Int, m * d < m, m * d > -m
  PROVE  d = 0
<1>1. CASE d >= 1
    <2>1. m * d = m + m * (d - 1) /\ m * (d - 1) >= 0
        BY <1>1
    <2> QED BY <2>1
<1>2. CASE d <= -1
    <2>1. m * d = -m + m * (d + 1) /\ m * (d + 1) <= 0
        BY <1>2
    <2> QED BY <2>1
<1> QED BY <1>1, <1>2

\* Slots of a ring of m that are fewer than m apart are different slots.
LEMMA ModWindow ==
  ASSUME NEW a \in Nat, NEW b \in Nat, NEW m \in Nat \ {0},
         a % m = b % m, a - b < m, b - a < m
  PROVE  a = b
<1> DEFINE d == a \div m - b \div m
<1>1. d \in Int /\ a - b = m * d
    BY ModParts
<1> HIDE DEF d
<1>2. d = 0
    BY <1>1, Multiple
<1> QED BY <1>1, <1>2

LEMMA ModAdd ==
  ASSUME NEW a \in Nat, NEW b \in Nat, NEW m \in Nat \ {0}
  PROVE  ((a % m) + b) % m = (a + b) % m /\ (a + m) % m = a % m
<1>0. ASSUME NEW c \in Nat, NEW q \in Nat PROVE (c + m * q) % m = c % m
    <2>1. m * q \in Nat
        OBVIOUS
    <2>2. /\ (c + m * q) % m \in 0 .. m - 1 /\ c % m \in 0 .. m - 1
          /\ c + m * q = m * ((c + m * q) \div m) + ((c + m * q) % m)
          /\ c = m * (c \div m) + (c % m)
          /\ (c + m * q) \div m \in Int /\ c \div m \in Int
        BY <2>1, ModParts
    <2> DEFINE x == (c + m * q) % m
               y == c % m
               u == (c + m * q) \div m
               v == c \div m
    <2>3. /\ x \in 0 .. m - 1 /\ y \in 0 .. m - 1 /\ u \in Int /\ v \in Int
          /\ c + m * q = m * u + x /\ c = m * v + y
        BY <2>2
    <2> HIDE DEF x, y, u, v
    <2>4. m * (u - v - q) = m * u - m * v - m * q
        BY <2>3, Distribute
    <2>5. m * (u - v - q) = y - x
        BY <2>3, <2>4
    <2>6. m * (u - v - q) < m /\ m * (u - v - q) > -m /\ u - v - q \in Int
        BY <2>3, <2>5
    <2>7. u - v - q = 0
        BY <2>6, Multiple
    <2>8. x = y
        BY <2>3, <2>5, <2>7
    <2> QED BY <2>8 DEF x, y
<1>1. /\ a % m \in Nat /\ a \div m \in Nat /\ a = m * (a \div m) + (a % m)
    BY ModParts
<1>2. ((a % m) + b) + m * (a \div m) = a + b /\ (a % m) + b \in Nat
    <2> DEFINE r == a % m
               k == a \div m
    <2>1. r \in Nat /\ k \in Nat /\ a = m * k + r
        BY <1>1
    <2> HIDE DEF r, k
    <2>2. m * k \in Nat
        BY <2>1
    <2>3. (r + b) + m * k = a + b /\ r + b \in Nat
        BY <2>1, <2>2
    <2> QED BY <2>3 DEF r, k
<1>3. ((a % m) + b) % m = (a + b) % m
    BY <1>0, <1>1, <1>2
<1>4. (a + m) % m = a % m
    <2>1. (a + m * 1) % m = a % m
        BY <1>0
    <2>2. m * 1 = m
        OBVIOUS
    <2> QED BY <2>1, <2>2
<1> QED BY <1>3, <1>4

-----------------------------------------------------------------------------
BaseOf(s) == IF s.history_full THEN s.history_save_line ELSE 0
LogOf(s)  == [i \in 1 .. total_history_lines(s) |-> s.text[(BaseOf(s) + i - 1) % HistoryLines]]
PageOf(s) == [i \in 1 .. H |-> RowText(s, i - 1)]

\* The last HistoryLines of old followed by lines.
After(old, lines) ==
  LET all == old \o lines
      excess == IF Len(all) > HistoryLines THEN Len(all) - HistoryLines ELSE 0
  IN  SubSeq(all, excess + 1, Len(all))

LEMMA DropFirst ==
  ASSUME NEW S, NEW s \in Seq(S), NEW e \in 0 .. Len(s)
  PROVE  LET r == SubSeq(s, e + 1, Len(s))
         IN  /\ r \in Seq(S) /\ Len(r) = Len(s) - e
             /\ \A i \in 1 .. Len(s) - e : r[i] = s[e + i]
<1> DEFINE r == SubSeq(s, e + 1, Len(s))
<1>1. r \in Seq(S)
  OBVIOUS
<1>2. Len(r) = Len(s) - e
  OBVIOUS
<1>3. \A i \in 1 .. Len(s) - e : r[i] = s[e + i]
  OBVIOUS
<1> QED BY <1>1, <1>2, <1>3

LEMMA AfterIs ==
  ASSUME NEW S, NEW old \in Seq(S), NEW lines \in Seq(S), NEW new \in Seq(S),
         NEW ex \in Nat,
         ex = IF Len(old) + Len(lines) > HistoryLines
              THEN Len(old) + Len(lines) - HistoryLines ELSE 0,
         Len(new) = Len(old) + Len(lines) - ex,
         \A i \in 1 .. Len(new) : new[i] = IF ex + i <= Len(old) THEN old[ex + i]
                                           ELSE lines[ex + i - Len(old)]
  PROVE  new = After(old, lines)
<1> DEFINE all == old \o lines
           r   == SubSeq(all, ex + 1, Len(all))
<1>1. /\ all \in Seq(S) /\ Len(all) = Len(old) + Len(lines)
      /\ Len(old) \in Nat /\ Len(lines) \in Nat
      /\ \A i \in 1 .. Len(all) : all[i] = IF i <= Len(old) THEN old[i] ELSE lines[i - Len(old)]
  OBVIOUS
<1>2. After(old, lines) = r
  <2> DEFINE x == IF Len(all) > HistoryLines THEN Len(all) - HistoryLines ELSE 0
  <2>1. ex = x
    <3>1. Len(old) + Len(lines) \in Nat /\ HistoryLines \in Nat
      BY <1>1, SizeAssumption
    <3> DEFINE m == Len(old) + Len(lines)
    <3>2. m \in Nat /\ Len(all) = m
      BY <1>1, <3>1
    <3>3. CASE m > HistoryLines
      <4>1. ex = m - HistoryLines
        BY <3>1, <3>3
      <4> HIDE DEF m, all
      <4>2. x = m - HistoryLines
        BY <3>2, <3>3
      <4> QED BY <4>1, <4>2
    <3>4. CASE ~(m > HistoryLines)
      <4>1. ex = 0
        BY <3>1, <3>4
      <4> HIDE DEF m, all
      <4>2. x = 0
        BY <3>2, <3>4
      <4> QED BY <4>1, <4>2
    <3> QED BY <3>3, <3>4
  <2>2. After(old, lines) = SubSeq(all, x + 1, Len(all))
    BY Zenon DEF After
  <2>3. SubSeq(all, x + 1, Len(all)) = SubSeq(all, ex + 1, Len(all))
    <3> HIDE DEF x, all
    <3> QED BY <2>1
  <2> QED BY Zenon, <2>2, <2>3
<1> HIDE DEF all
<1>3. /\ r \in Seq(S) /\ Len(r) = Len(all) - ex
      /\ \A i \in 1 .. Len(all) - ex : r[i] = all[ex + i]
  <2>1. ex \in 0 .. Len(all)
    BY <1>1, SizeAssumption
  <2> QED BY <1>1, <2>1, DropFirst
<1> HIDE DEF r
<1>4. \A i \in 1 .. Len(new) : new[i] = r[i]
  <2> SUFFICES ASSUME NEW i \in 1 .. Len(new) PROVE new[i] = r[i]
    OBVIOUS
  <2>1. ex + i \in 1 .. Len(all) /\ i \in 1 .. Len(all) - ex
    BY <1>1
  <2>2. r[i] = IF ex + i <= Len(old) THEN old[ex + i] ELSE lines[ex + i - Len(old)]
    <3>1. r[i] = all[ex + i]
      BY <1>3, <2>1
    <3> DEFINE j == ex + i
    <3>2. j \in 1 .. Len(all)
      BY <2>1
    <3> HIDE DEF j
    <3>3. all[j] = IF j <= Len(old) THEN old[j] ELSE lines[j - Len(old)]
      BY <1>1, <3>2
    <3> QED BY <3>1, <3>3 DEF j
  <2>3. new[i] = IF ex + i <= Len(old) THEN old[ex + i] ELSE lines[ex + i - Len(old)]
    OBVIOUS
  <2> QED BY <2>2, <2>3
<1>5. new = r
  BY <1>1, <1>3, <1>4, SeqEqual
<1> QED BY <1>2, <1>5

LEMMA LogType ==
  ASSUME NEW s, WF(s)
  PROVE  /\ LogOf(s) \in Seq(Line) /\ PageOf(s) \in Seq(Line)
         /\ Len(LogOf(s)) = total_history_lines(s)
         /\ Len(PageOf(s)) = H
         /\ total_history_lines(s) \in 0 .. HistoryLines
<1>1. total_history_lines(s) \in 0 .. HistoryLines
  BY SizeAssumption DEF WF, StoreOK, VTermState, total_history_lines
<1>2. \A i \in 1 .. H : RowText(s, i - 1) \in Line
  <2>1. \A i \in 1 .. H : i - 1 \in Rows
    BY SizeAssumption DEF Rows
  <2> QED BY <2>1, RowLines DEF Line
<1>3. ASSUME NEW i \in 1 .. total_history_lines(s)
      PROVE  s.text[(BaseOf(s) + i - 1) % HistoryLines] \in Line
  <2>1. HistoryLines \in Nat /\ HistoryLines > 0 /\ BaseOf(s) + i - 1 \in Nat
    BY <1>1, SizeAssumption DEF WF, StoreOK, VTermState, BaseOf
  <2>2. (BaseOf(s) + i - 1) % HistoryLines \in 0 .. HistoryLines - 1
    BY <2>1, ModRange
  <2>3. (BaseOf(s) + i - 1) % HistoryLines \in Lines
    BY <2>1, <2>2, SizeAssumption DEF Lines
  <2> QED BY <2>3 DEF WF, StoreOK, VTermState
<1>4. LogOf(s) \in [1 .. total_history_lines(s) -> Line]
  BY <1>3 DEF LogOf
<1>5. PageOf(s) \in [1 .. H -> Line]
  BY <1>2 DEF PageOf
<1> QED BY <1>1, <1>4, <1>5, SizeAssumption

\* history_scroll appends the top rows of the page to the log, of which the
\* last HistoryLines remain.
LEMMA ScrollsIntoLog ==
  ASSUME NEW s, WF(s), NEW num \in 1 .. H
  PROVE  LogOf(history_scroll(s, num)) = After(LogOf(s), SubSeq(PageOf(s), 1, num))
<1> DEFINE t     == history_scroll(s, num)
           lines == SubSeq(PageOf(s), 1, num)
           total == total_history_lines(s)
           base  == BaseOf(s)
           save  == s.history_save_line
           n     == total + num
           ex    == IF n > HistoryLines THEN n - HistoryLines ELSE 0
<1>1. /\ LogOf(s) \in Seq(Line) /\ Len(LogOf(s)) = total
      /\ lines \in Seq(Line) /\ Len(lines) = num
      /\ \A i \in 1 .. num : lines[i] = RowText(s, i - 1)
  <2>1. /\ LogOf(s) \in Seq(Line) /\ Len(LogOf(s)) = total
        /\ PageOf(s) \in Seq(Line) /\ Len(PageOf(s)) = H
    BY LogType
  <2>2. \A i \in 1 .. num : PageOf(s)[i] = RowText(s, i - 1)
    BY SizeAssumption DEF PageOf
  <2> DEFINE p == PageOf(s)
  <2>3. p \in Seq(Line) /\ Len(p) = H /\ num \in 1 .. Len(p)
    BY <2>1
  <2> HIDE DEF p
  <2>4. SubSeq(p, 1, num) \in Seq(Line) /\ Len(SubSeq(p, 1, num)) = num
        /\ \A i \in 1 .. num : SubSeq(p, 1, num)[i] = p[i]
    BY <2>3
  <2> QED BY <2>1, <2>2, <2>4 DEF p
<1>2. /\ total \in 0 .. HistoryLines /\ num \in Nat /\ n \in Nat /\ ex \in Nat
      /\ base \in Nat /\ save \in Nat /\ HistoryLines \in Nat
      /\ HistoryLines > 0 => save < HistoryLines
      /\ s.history_full => total = HistoryLines /\ base = save /\ HistoryLines > 0
      /\ ~s.history_full => total = save /\ base = 0
      /\ n = total + num /\ ex = IF n > HistoryLines THEN n - HistoryLines ELSE 0
  <2>1. total \in 0 .. HistoryLines
    BY LogType
  <2>2. /\ base \in Nat /\ save \in Nat /\ HistoryLines \in Nat
        /\ HistoryLines > 0 => save < HistoryLines
        /\ s.history_full => total = HistoryLines /\ base = save /\ HistoryLines > 0
        /\ ~s.history_full => total = save /\ base = 0
    BY SizeAssumption DEF WF, StoreOK, VTermState, BaseOf, total_history_lines
  <2> HIDE DEF total, base, save
  <2>3. num \in Nat /\ n \in Nat /\ ex \in Nat
    BY <2>1, <2>2, SizeAssumption
  <2> QED BY <2>1, <2>2, <2>3
<1>h. HistoryLines > 0 => HistoryLines \in Nat \ {0}
  BY <1>2
<1>3. WF(t)
  <2>1. num \in 0 .. H
    BY SizeAssumption
  <2> QED BY <2>1, HistoryScrollWF
<1>4. LogOf(t) \in Seq(Line) /\ Len(LogOf(t)) = total_history_lines(t)
  BY <1>3, LogType
<1> HIDE DEF total, base, save, n, ex
<1>5. CASE HistoryLines = 0
  <2>1. t = s /\ total = 0 /\ ex = num
    <3>1. t = s
      BY <1>5 DEF history_scroll
    <3> QED BY <1>2, <1>5, <3>1
  <2>2. Len(LogOf(t)) = 0
    BY <1>1, <2>1
  <2>3. ex = IF Len(LogOf(s)) + Len(lines) > HistoryLines
             THEN Len(LogOf(s)) + Len(lines) - HistoryLines ELSE 0
    BY <1>1, <1>2, <1>5, <2>1
  <2>4. Len(LogOf(t)) = Len(LogOf(s)) + Len(lines) - ex
    BY <1>1, <1>2, <2>1, <2>2
  <2>5. \A i \in 1 .. Len(LogOf(t)) : FALSE
    BY <2>2
  <2>6. \A i \in 1 .. Len(LogOf(t)) :
          LogOf(t)[i] = IF ex + i <= Len(LogOf(s)) THEN LogOf(s)[ex + i]
                        ELSE lines[ex + i - Len(LogOf(s))]
    BY <2>5
  <2> HIDE DEF t, lines
  <2>7. LogOf(t) = After(LogOf(s), lines)
    BY <1>1, <1>2, <1>4, <2>3, <2>4, <2>6, AfterIs
  <2> QED BY <2>7 DEF t, lines
<1>6. CASE HistoryLines > 0
  <2>h. HistoryLines \in Nat \ {0}
    BY <1>h, <1>6
  <2> HIDE DEF t
  <2> DEFINE slot(i) == (save + i) % HistoryLines
             kept(l) == {i \in 0 .. num - 1 : num - i <= HistoryLines /\ slot(i) = l}
             copied  == [l \in Lines |-> IF kept(l) = {} THEN s.text[l]
                                         ELSE RowText(s, CHOOSE i \in kept(l) : TRUE)]
  <2>1. /\ t.history_full = (s.history_full \/ save + num >= HistoryLines)
        /\ t.history_save_line = (save + num) % HistoryLines
        /\ t.text = copied
    <3> DEFINE a == [s EXCEPT !.text = copied]
    <3>1. t = RingAdvance(a, num)
      BY <1>6 DEF history_scroll, save, t
    <3>2. copied \in [Lines -> Line]
      <4>1. ASSUME NEW l \in Lines, kept(l) # {}
            PROVE  RowText(s, CHOOSE i \in kept(l) : TRUE) \in Line
        <5>1. (CHOOSE i \in kept(l) : TRUE) \in kept(l)
          BY <4>1
        <5>2. (CHOOSE i \in kept(l) : TRUE) \in Rows
          BY <5>1, SizeAssumption DEF Rows
        <5> QED BY <5>2, RowLines DEF Line
      <4>2. \A l \in Lines : s.text[l] \in Line
        BY DEF WF, StoreOK, VTermState
      <4> QED BY <4>1, <4>2
    <3> HIDE DEF copied
    <3>3. /\ a \in VTermState /\ a.text = copied
          /\ a.history_full = s.history_full /\ a.history_save_line = save
      BY <3>2 DEF WF, StoreOK, VTermState, save
    <3> HIDE DEF a
    <3>4. num \in Int
      BY <1>2
    <3> QED BY <3>1, <3>3, <3>4, RingAdvanceFields
  <2>2. total_history_lines(t) = n - ex
    <3>1. CASE s.history_full
      <4>1. total_history_lines(t) = HistoryLines
        BY <2>1, <3>1 DEF total_history_lines
      <4> QED BY <1>2, <3>1, <4>1
    <3>2. CASE ~s.history_full /\ save + num >= HistoryLines
      <4>1. total_history_lines(t) = HistoryLines
        BY <2>1, <3>2 DEF total_history_lines
      <4> QED BY <1>2, <3>2, <4>1
    <3>3. CASE ~s.history_full /\ save + num < HistoryLines
      <4>1. (save + num) % HistoryLines = save + num
        BY <1>2, <3>3, ModSmall
      <4>2. total_history_lines(t) = save + num
        <5>1. ~(save + num >= HistoryLines)
          BY <1>2, <3>3
        <5>2. ~t.history_full
          BY <2>1, <3>3, <5>1, Zenon
        <5>3. t.history_save_line = save + num
          BY <2>1, <4>1
        <5> QED BY <5>2, <5>3 DEF total_history_lines
      <4> QED BY <1>2, <3>3, <4>2
    <3> QED BY <1>2, <3>1, <3>2, <3>3
  <2>3. ASSUME NEW i \in 1 .. n - ex
        PROVE  (BaseOf(t) + i - 1) % HistoryLines = (base + ex + i - 1) % HistoryLines
    <3>1. CASE s.history_full \/ save + num >= HistoryLines
      <4>1. BaseOf(t) = (save + num) % HistoryLines
        BY <2>1, <3>1 DEF BaseOf
      <4>2. (((save + num) % HistoryLines) + (i - 1)) % HistoryLines
              = ((save + num) + (i - 1)) % HistoryLines
        <5>1. save + num \in Nat /\ i - 1 \in Nat
          BY <1>2
        <5> QED BY <2>h, <5>1, ModAdd
      <4>3. /\ (save + num) % HistoryLines \in Int
            /\ BaseOf(t) + i - 1 = ((save + num) % HistoryLines) + (i - 1)
        <5>1. (save + num) % HistoryLines \in 0 .. HistoryLines - 1
          BY <1>2, <1>6, <1>h, ModRange
        <5> QED BY <4>1, <5>1
      <4>4. CASE s.history_full
        <5>1. base + ex + i - 1 = (save + num) + (i - 1)
          BY <1>2, <4>4
        <5> QED BY <4>2, <4>3, <5>1
      <4>5. CASE ~s.history_full
        <5> DEFINE c == base + ex + i - 1
        <5>1. c \in Nat /\ c + HistoryLines = (save + num) + (i - 1)
          BY <1>2, <3>1, <4>5
        <5> HIDE DEF c
        <5>2. (c + HistoryLines) % HistoryLines = c % HistoryLines
          BY <1>2, <1>6, <1>h, <5>1, ModAdd
        <5> QED BY <4>2, <4>3, <5>1, <5>2 DEF c
      <4> QED BY <4>4, <4>5
    <3>2. CASE ~(s.history_full \/ save + num >= HistoryLines)
      <4>1. BaseOf(t) = 0
        BY <2>1, <3>2 DEF BaseOf
      <4>2. base = 0 /\ ex = 0
        BY <1>2, <3>2
      <4> QED BY <4>1, <4>2
    <3> QED BY <3>1, <3>2
  <2>4. ASSUME NEW j \in ex + 1 .. n
        PROVE  /\ (base + j - 1) % HistoryLines \in Lines
               /\ t.text[(base + j - 1) % HistoryLines] =
                    IF j <= total THEN s.text[(base + j - 1) % HistoryLines]
                    ELSE RowText(s, j - total - 1)
    <3> DEFINE l == (base + j - 1) % HistoryLines
    <3>1. l \in Lines
      <4>1. l \in 0 .. HistoryLines - 1
        BY <1>2, <1>6, <1>h, ModRange
      <4> QED BY <4>1, SizeAssumption DEF Lines
    <3>2. ASSUME NEW k \in 0 .. num - 1
          PROVE  slot(k) = (base + total + k) % HistoryLines
      <4>1. CASE s.history_full
        <5>1. base + total + k = (save + k) + HistoryLines /\ save + k \in Nat
          BY <1>2, <4>1
        <5> QED BY <1>2, <1>6, <1>h, <5>1, ModAdd
      <4>2. CASE ~s.history_full
        BY <1>2, <4>2
      <4> QED BY <4>1, <4>2
    <3>3. ASSUME NEW k \in kept(l)
          PROVE  total + k = j - 1
      <4>1. (base + total + k) % HistoryLines = (base + j - 1) % HistoryLines
        BY <3>2, <3>3
      <4>2. /\ base + total + k \in Nat /\ base + j - 1 \in Nat
            /\ (base + total + k) - (base + j - 1) < HistoryLines
            /\ (base + j - 1) - (base + total + k) < HistoryLines
        BY <1>2, <3>3
      <4>3. base + total + k = base + j - 1
        BY <1>2, <1>6, <1>h, <4>1, <4>2, ModWindow
      <4> QED BY <1>2, <3>3, <4>3
    <3>4. t.text[l] = IF kept(l) = {} THEN s.text[l]
                      ELSE RowText(s, CHOOSE i \in kept(l) : TRUE)
      BY <2>1, <3>1
    <3>5. CASE j <= total
      <4>1. kept(l) = {}
        BY <1>2, <3>3, <3>5
      <4> QED BY <3>1, <3>4, <3>5, <4>1
    <3>6. CASE j > total
      <4> DEFINE k == j - total - 1
      <4>1. k \in 0 .. num - 1 /\ num - k <= HistoryLines /\ total + k = j - 1
        BY <1>2, <3>6
      <4>2. slot(k) = l
        <5>1. base + total + k = base + j - 1
          BY <1>2, <4>1
        <5> QED BY <3>2, <4>1, <5>1
      <4>3. k \in kept(l)
        BY <4>1, <4>2
      <4> HIDE DEF k
      <4>4. \A i \in kept(l) : i = k
        BY <1>2, <3>3, <4>1
      <4> HIDE DEF kept
      <4>5. (CHOOSE i \in kept(l) : TRUE) = k
        BY <4>3, <4>4
      <4>6. t.text[l] = RowText(s, k)
        BY <3>4, <4>3, <4>5
      <4>7. ~(j <= total) /\ k = j - total - 1
        BY <1>2, <3>6 DEF k
      <4> QED BY <3>1, <4>6, <4>7
    <3> QED BY <1>2, <3>5, <3>6
  <2> HIDE DEF copied, kept, slot, t, lines
  <2>5. ASSUME NEW i \in 1 .. Len(LogOf(t))
        PROVE  LogOf(t)[i] = IF ex + i <= Len(LogOf(s)) THEN LogOf(s)[ex + i]
                             ELSE lines[ex + i - Len(LogOf(s))]
    <3> DEFINE j == ex + i
    <3>1. i \in 1 .. n - ex /\ i \in 1 .. total_history_lines(t)
      BY <1>4, <2>2
    <3>2. LogOf(t)[i] = t.text[(base + ex + i - 1) % HistoryLines]
      BY <2>3, <3>1 DEF LogOf
    <3>3. j \in ex + 1 .. n /\ base + j - 1 = base + ex + i - 1 /\ j \in Nat
      BY <1>2, <3>1
    <3> HIDE DEF j
    <3>4. LogOf(t)[i] = IF j <= total THEN s.text[(base + j - 1) % HistoryLines]
                        ELSE RowText(s, j - total - 1)
      BY <2>4, <3>2, <3>3
    <3>5. CASE j <= total
      <4>1. j \in 1 .. total
        BY <1>2, <3>3, <3>5
      <4>2. LogOf(s)[j] = s.text[(base + j - 1) % HistoryLines]
        BY <4>1 DEF LogOf, base, total
      <4> QED BY <1>1, <3>4, <3>5, <4>2 DEF j
    <3>6. CASE j > total
      <4>1. j - total \in 1 .. num
        BY <1>2, <3>3, <3>6
      <4>2. lines[j - total] = RowText(s, j - total - 1)
        BY <1>1, <4>1
      <4>3. ~(j <= total)
        BY <1>2, <3>3, <3>6
      <4>4. LogOf(t)[i] = lines[j - total]
        BY <3>4, <4>2, <4>3
      <4>5. j = ex + i /\ total \in Nat /\ Len(LogOf(s)) = total /\ j \in Nat
        BY <1>1, <1>2, <3>3 DEF j
      <4>6. ~(ex + i <= Len(LogOf(s)))
        BY <4>3, <4>5
      <4>7. ex + i - Len(LogOf(s)) = j - total
        BY <1>2, <3>1, <3>3, <4>5
      <4>8. LogOf(t)[i] = lines[ex + i - Len(LogOf(s))]
        BY <4>4, <4>7
      <4> QED BY <4>6, <4>8
    <3> QED BY <1>2, <3>3, <3>5, <3>6
  <2>6. ex = IF Len(LogOf(s)) + Len(lines) > HistoryLines
             THEN Len(LogOf(s)) + Len(lines) - HistoryLines ELSE 0
    BY <1>1, <1>2
  <2>7. Len(LogOf(t)) = Len(LogOf(s)) + Len(lines) - ex
    BY <1>1, <1>2, <1>4, <2>2
  <2> HIDE DEF ex
  <2>8. LogOf(t) = After(LogOf(s), lines)
    BY <1>1, <1>2, <1>4, <2>5, <2>6, <2>7, AfterIs
  <2> QED BY <2>8 DEF t, lines
<1> QED BY <1>2, <1>5, <1>6

LEMMA SameLog ==
  ASSUME NEW s, WF(s), NEW t, SameHistory(t, s)
  PROVE  LogOf(t) = LogOf(s)
<1>1. total_history_lines(t) = total_history_lines(s) /\ BaseOf(t) = BaseOf(s)
  BY DEF SameHistory, total_history_lines, BaseOf
<1>2. ASSUME NEW i \in 1 .. total_history_lines(s)
      PROVE  t.text[(BaseOf(s) + i - 1) % HistoryLines]
               = s.text[(BaseOf(s) + i - 1) % HistoryLines]
  <2>1. total_history_lines(s) \in 0 .. HistoryLines
    BY LogType
  <2>2. HistoryLines \in Nat /\ HistoryLines > 0 /\ BaseOf(s) + i - 1 \in Nat
    BY <2>1, SizeAssumption DEF WF, StoreOK, VTermState, BaseOf
  <2>3. (BaseOf(s) + i - 1) % HistoryLines \in 0 .. HistoryLines - 1
    BY <2>2, ModRange
  <2> DEFINE l == (BaseOf(s) + i - 1) % HistoryLines
  <2>4. l \in Lines /\ l < HistoryLines
    BY <2>2, <2>3, SizeAssumption DEF Lines
  <2> HIDE DEF l
  <2>5. t.text[l] = s.text[l]
    BY <2>4 DEF SameHistory
  <2> QED BY <2>5 DEF l
<1> QED BY <1>1, <1>2 DEF LogOf

LEMMA AfterNothing ==
  ASSUME NEW s, WF(s), NEW page
  PROVE  LogOf(s) = After(LogOf(s), SubSeq(page, 1, 0))
<1> DEFINE old == LogOf(s)
           lines == SubSeq(page, 1, 0)
<1>1. /\ old \in Seq(Line) /\ Len(old) \in 0 .. HistoryLines
  BY LogType
<1>2. lines \in Seq(Line) /\ Len(lines) = 0
  OBVIOUS
<1> HIDE DEF old, lines
<1>3. Len(old) + Len(lines) = Len(old) /\ Len(old) \in Nat /\ HistoryLines \in Nat
      /\ ~(Len(old) > HistoryLines)
  BY <1>1, <1>2, SizeAssumption
<1> DEFINE ex == 0
<1>4. ex = IF Len(old) + Len(lines) > HistoryLines
           THEN Len(old) + Len(lines) - HistoryLines ELSE 0
  BY <1>3
<1>5. Len(old) = Len(old) + Len(lines) - ex
  BY <1>3
<1>6. \A i \in 1 .. Len(old) : old[i] = IF ex + i <= Len(old) THEN old[ex + i]
                                        ELSE lines[ex + i - Len(old)]
  BY <1>3
<1>8. ex \in Nat
  OBVIOUS
<1> HIDE DEF ex
<1>7. old = After(old, lines)
  <2>1. old \in Seq(Line) /\ lines \in Seq(Line)
    BY <1>1, <1>2
  <2> QED BY Zenon, <2>1, <1>4, <1>5, <1>6, <1>8, AfterIs
<1> QED BY <1>7 DEF old, lines

\* From s to t the top k rows of s leave for the log.
Leaves(t, s, k) == LogOf(t) = After(LogOf(s), SubSeq(PageOf(s), 1, k))

\* No row leaves, or 1 to n of them.
LogStep(t, s, n) == SameHistory(t, s) \/ \E k \in 1 .. H : k <= n /\ Leaves(t, s, k)

LEMMA ScrollRegionLog ==
  ASSUME NEW s, WF(s), NEW start \in Rows, NEW end \in Rows, NEW n \in Int
  PROVE  LogStep(scroll_region(s, start, end, n), s, n)
<1> DEFINE t  == scroll_region(s, start, end, n)
           mx == end - start + 1
<1>0. start \in Int /\ end \in Int /\ mx \in Int
  BY DEF Rows
<1>1. CASE n = 0 \/ start > end
  <2>1. t = s
    BY <1>1 DEF scroll_region
  <2> QED BY <2>1 DEF SameHistory, LogStep
<1>2. ASSUME ~(n = 0 \/ start > end), NEW k \in Int, k >= 1, k <= n, k <= mx,
             SameHistory(t, IF start = 0 /\ n > 0 THEN history_scroll(s, k) ELSE s)
      PROVE  LogStep(t, s, n)
  <2>1. CASE start = 0 /\ n > 0
    <3>1. k \in 1 .. H /\ k \in 0 .. H
      BY <1>2, <2>1, SizeAssumption DEF Rows
    <3>2. SameHistory(t, history_scroll(s, k))
      BY <1>2, <2>1
    <3>3. WF(history_scroll(s, k))
      BY <3>1, HistoryScrollWF
    <3> HIDE DEF t
    <3>4. LogOf(t) = LogOf(history_scroll(s, k))
      BY <3>2, <3>3, SameLog
    <3>5. Leaves(t, s, k)
      BY <3>1, <3>4, ScrollsIntoLog DEF Leaves
    <3> QED BY <1>2, <3>1, <3>5 DEF LogStep
  <2>2. CASE ~(start = 0 /\ n > 0)
    BY <1>2, <2>2 DEF LogStep
  <2> QED BY <2>1, <2>2
<1>3. CASE ~(n = 0 \/ start > end) /\ Absolute(n) < mx
  <2>1. Shifted(t, s, start, end, n)
    BY <1>3, ScrollRegionShifts
  <2>2. SameHistory(t, IF start = 0 /\ n > 0 THEN history_scroll(s, n) ELSE s)
    BY <2>1 DEF Shifted
  <2>3. CASE n >= 1
    <3>1. n <= mx
      BY <1>0, <1>3, <2>3 DEF Absolute
    <3> HIDE DEF t, mx
    <3>2. LogStep(t, s, n)
      BY <1>2, <1>3, <2>2, <2>3, <3>1
    <3> QED BY <3>2 DEF t
  <2>4. CASE ~(n >= 1)
    <3>1. ~(start = 0 /\ n > 0)
      BY <2>4
    <3> QED BY <2>2, <3>1 DEF LogStep
  <2> QED BY <2>3, <2>4
<1>4. CASE ~(n = 0 \/ start > end) /\ ~(Absolute(n) < mx)
  <2>0. start <= end /\ Absolute(n) >= end - start + 1
    BY <1>0, <1>4 DEF Absolute
  <2>1. SameHistory(t, IF start = 0 /\ n > 0 THEN history_scroll(s, mx) ELSE s)
    BY <2>0, ScrollRegionWhole
  <2>2. CASE n >= 1
    <3>1. mx >= 1 /\ mx <= n /\ mx <= mx
      BY <1>0, <1>4, <2>0, <2>2 DEF Absolute
    <3> HIDE DEF t, mx
    <3>2. LogStep(t, s, n)
      BY <1>0, <1>2, <1>4, <2>1, <3>1
    <3> QED BY <3>2 DEF t
  <2>3. CASE ~(n >= 1)
    <3>1. ~(start = 0 /\ n > 0)
      BY <2>3
    <3> QED BY <2>1, <3>1 DEF LogStep
  <2> QED BY <2>2, <2>3
<1> QED BY <1>1, <1>3, <1>4

LEMMA LogStepThen ==
  ASSUME NEW r, WF(r), NEW s, NEW n, LogStep(r, s, n), NEW t, SameHistory(t, r)
  PROVE  LogStep(t, s, n)
<1>1. SameHistory(r, s) => SameHistory(t, s)
  BY DEF SameHistory
<1>2. LogOf(t) = LogOf(r)
  BY SameLog
<1> QED BY <1>1, <1>2, Zenon DEF LogStep, Leaves

LEMMA WriteAreaHistory ==
  ASSUME NEW s, WF(s), NEW ys \in SUBSET Rows, NEW zs \in SUBSET Zones, NEW v \in Tokens
  PROVE  SameHistory(WriteArea(s, ys, zs, v), s)
<1> DEFINE t == WriteArea(s, ys, zs, v)
<1>1. Written(t, s, ys, zs, v)
  BY WriteAreaFields
<1> HIDE DEF t
<1>2. SameHistory(t, s)
  BY <1>1 DEF Written, SameRing, SameHistory
<1> QED BY <1>2 DEF t

LEMMA MoveCursorHistory ==
  ASSUME NEW s, WF(s), NEW y
  PROVE  SameHistory(move_cursor(s, y), s)
BY MoveCursorSame DEF SameRing, SameHistory

LEMMA UpdateHistory ==
  ASSUME NoOverflow, NEW s, WF(s), NEW ok, NEW act
  PROVE  SameHistory(update(s, ok, act), s)
BY UpdateFields DEF SameRing, SameHistory

LEMMA LinefeedLog ==
  ASSUME NEW s, WF(s)
  PROVE  LogStep(linefeed(s), s, 1)
<1>1. s.scroll_top \in Rows /\ s.scroll_bot \in Rows
  BY DEF WF, StoreOK, VTermState
<1>2. LogStep(scroll_region(s, s.scroll_top, s.scroll_bot, 1), s, 1)
  BY <1>1, ScrollRegionLog
<1>3. LogStep(move_cursor(s, s.cursor_y + 1), s, 1)
  BY MoveCursorHistory DEF LogStep
<1> QED BY <1>2, <1>3 DEF linefeed

\* Making room for an image is one scroll; the image is written on the page.
LEMMA ImagePlacedLog ==
  ASSUME NoOverflow, NEW s, WF(s), NEW n \in Nat, NEW zs \in SUBSET Zones,
         NEW v \in Tokens, NEW ok, NEW act
  PROVE  LogStep(ImagePlaced(s, n, zs, v, ok, act), s, H)
<1> DEFINE room == ImageRoom(s)
           mx   == s.scroll_bot - s.scroll_top + 1
           need == Smaller(n - room, mx)
           scr  == scroll_region(s, s.scroll_top, s.scroll_bot, need)
           up   == IF n > room THEN update(scr, ok, act) ELSE s
           cur  == IF n <= room THEN s.cursor_y
                   ELSE IF s.cursor_y >= s.scroll_top + need
                        THEN s.cursor_y - need ELSE s.scroll_top
           end  == Smaller(cur + n, H)
           w    == WriteArea(up, cur .. end - 1, zs, v)
<1>1. /\ s.cursor_y \in Rows /\ s.scroll_top \in Rows /\ s.scroll_bot \in Rows
      /\ s.cursor_y \in Nat /\ s.scroll_top \in Nat /\ s.scroll_bot \in Nat
  BY DEF WF, StoreOK, VTermState, Rows
<1>2. need \in Int /\ room \in Int
  BY <1>1 DEF Rows, Smaller, ImageRoom
<1>3. ImagePlaced(s, n, zs, v, ok, act) = move_cursor(w, end)
  BY DEF ImagePlaced
<1>4. cur .. end - 1 \in SUBSET Rows
  <2>1. end \in Int /\ end <= H
    BY <1>1, <1>2, SizeAssumption DEF Smaller
  <2>2. cur \in Nat
    BY <1>1, <1>2
  <2> HIDE DEF cur, end
  <2> QED BY <2>1, <2>2, SizeAssumption DEF Rows
<1>5. WF(scr) /\ LogStep(scr, s, H)
  <2>1. WF(scr)
    BY <1>1, <1>2, ScrollRegionWF
  <2>2. LogStep(scr, s, need)
    BY <1>1, <1>2, ScrollRegionLog
  <2>3. \A k \in 1 .. H : k <= H
    BY SizeAssumption
  <2> HIDE DEF scr, need
  <2>4. LogStep(scr, s, H)
    BY <2>2, <2>3, Zenon DEF LogStep
  <2> QED BY <2>1, <2>4
<1> HIDE DEF scr
<1>6. WF(up) /\ LogStep(up, s, H)
  <2>1. CASE n > room
    <3>1. WF(update(scr, ok, act)) /\ SameHistory(update(scr, ok, act), scr)
      BY <1>5, UpdateWF, UpdateHistory
    <3>2. LogStep(update(scr, ok, act), s, H)
      BY <1>5, <3>1, LogStepThen
    <3> QED BY <2>1, <3>1, <3>2
  <2>2. CASE ~(n > room)
    BY <2>2 DEF LogStep, SameHistory
  <2> QED BY <2>1, <2>2
<1> HIDE DEF up, cur, end
<1>7. WF(w) /\ LogStep(w, s, H)
  <2>1. WF(w) /\ SameHistory(w, up)
    BY <1>4, <1>6, WriteAreaWF, WriteAreaHistory
  <2> QED BY <1>6, <2>1, LogStepThen
<1> HIDE DEF w
<1>8. SameHistory(move_cursor(w, end), w)
  BY <1>7, MoveCursorHistory
<1> QED BY <1>3, <1>7, <1>8, LogStepThen

-----------------------------------------------------------------------------
(* The steps *)

\* The k top rows of s as they may leave it: the last of them cut short.
Pushed(s, k) ==
  LET top == SubSeq(PageOf(s), 1, k)
  IN  {top} \cup (IF k = 0 THEN {}
                  ELSE {[top EXCEPT ![k] = t] : t \in Shortened(top[k])})

LEMMA WriteMap ==
  ASSUME vt'.visual_start_line = Len(LogOf(vt')), Len(PageOf(vt')) = H,
         NEW k \in 0 .. H, NEW lines \in Pushed(vt, k),
         LogOf(vt') = After(LogOf(vt), lines)
  PROVE  History!Write
<1>1. History!Push(k)
  BY Zenon DEF History!Push, History!Leaving, LogOf, PageOf, HistoryLine, BaseOf,
               RowText, total_history_lines, After, Pushed
<1> QED
  BY <1>1 DEF History!Write, LogOf, PageOf, HistoryLine, BaseOf, RowText,
              total_history_lines

\* The line store is the same.
SameStore(t, s) ==
  /\ t.text = s.text /\ t.linenumbers = s.linenumbers
  /\ t.history_save_line = s.history_save_line
  /\ t.history_full = s.history_full

LEMMA LookMap ==
  ASSUME SameStore(vt', vt), vt'.visual_start_line \in 0 .. Len(LogOf(vt))
  PROVE  History!Look
<1>1. LogOf(vt') = LogOf(vt) /\ PageOf(vt') = PageOf(vt)
  BY DEF SameStore, LogOf, PageOf, BaseOf, RowText, total_history_lines
<1> QED
  BY <1>1 DEF History!Look, LogOf, PageOf, HistoryLine, BaseOf, RowText,
              total_history_lines

LEMMA StutterMap ==
  ASSUME SameStore(vt', vt), vt'.visual_start_line = vt.visual_start_line
  PROVE  UNCHANGED History!svars
<1>1. LogOf(vt') = LogOf(vt) /\ PageOf(vt') = PageOf(vt)
  BY DEF SameStore, LogOf, PageOf, BaseOf, RowText, total_history_lines
<1> QED
  BY <1>1 DEF History!svars, LogOf, PageOf, HistoryLine, BaseOf, RowText,
              total_history_lines

LEMMA HandlePushes ==
  ASSUME NoOverflow, Inv', ScreenInv', NEW s, Handle(s),
         NEW k \in 0 .. H, NEW lines \in Pushed(vt, k), LogOf(s) = After(LogOf(vt), lines)
  PROVE  History!Write
<1>1. vt' = s /\ phase' = "input"
  BY DEF Handle
<1>2. WF(vt') /\ Bottom(vt')
  BY <1>1 DEF Inv, TypeOK, LinesPermutation, WF, ScreenInv, Good
<1>3. Len(LogOf(vt')) = total_history_lines(vt') /\ Len(PageOf(vt')) = H
  BY <1>2, LogType
<1>4. vt'.visual_start_line = Len(LogOf(vt'))
  BY <1>2, <1>3 DEF Bottom
<1> QED BY <1>1, <1>3, <1>4, WriteMap

LEMMA HandleWrites ==
  ASSUME NoOverflow, Inv, Inv', ScreenInv', NEW s, Handle(s), NEW n, LogStep(s, vt, n)
  PROVE  History!Write
<1>0. WF(vt)
  BY InvWF
<1>1. CASE SameHistory(s, vt)
  <2>1. LogOf(s) = LogOf(vt)
    BY <1>0, <1>1, SameLog
  <2>2. LogOf(s) = After(LogOf(vt), SubSeq(PageOf(vt), 1, 0))
    BY <1>0, <2>1, AfterNothing
  <2>3. SubSeq(PageOf(vt), 1, 0) \in Pushed(vt, 0) /\ 0 \in 0 .. H
    BY SizeAssumption DEF Pushed
  <2> QED BY <2>2, <2>3, HandlePushes
<1>2. CASE \E k \in 1 .. H : Leaves(s, vt, k)
  <2>1. PICK k \in 1 .. H : LogOf(s) = After(LogOf(vt), SubSeq(PageOf(vt), 1, k))
    BY <1>2 DEF Leaves
  <2>2. SubSeq(PageOf(vt), 1, k) \in Pushed(vt, k) /\ k \in 0 .. H
    BY DEF Pushed
  <2> QED BY <2>1, <2>2, HandlePushes
<1> QED BY <1>1, <1>2 DEF LogStep

\* A cell of the last column is given up.
LEMMA LastColumnGivenUp ==
  ASSUME WF(vt), WideChars,
         NEW last, last = {z \in Zones : \A x \in Zones : x <= z},
         NEW b, b = [vt EXCEPT !.text =
                       Fill(vt, {vt.linenumbers[vt.cursor_y]}, last, Blank)]
  PROVE  /\ WF(b) /\ SameHistory(b, vt)
         /\ RowText(b, 0) \in {RowText(vt, 0)} \cup Shortened(RowText(vt, 0))
<1> DEFINE t == Fill(vt, {vt.linenumbers[vt.cursor_y]}, last, Blank)
           l == vt.linenumbers[0]
<1>0. 0 \in Rows /\ vt.cursor_y \in Rows
  BY SizeAssumption DEF Rows, WF, StoreOK, VTermState
<1>1. t \in [Lines -> Line]
  BY FillType, TokenAssumption
<1>2. \A x \in Lines : x # vt.linenumbers[vt.cursor_y] => t[x] = vt.text[x]
  BY DEF Fill
<1>3. \A x \in Lines : \/ t[x] = vt.text[x]
                       \/ t[x] = [z \in Zones |-> IF z \in last THEN Blank ELSE vt.text[x][z]]
  BY DEF Fill
<1>4. l \in Lines /\ RowText(vt, 0) = vt.text[l] /\ vt.text[l] \in [Zones -> Tokens]
  BY <1>0, RowLines DEF RowText
<1> HIDE DEF t, l
<1>5. /\ WF(b) /\ b.text = t /\ b.linenumbers = vt.linenumbers
      /\ b.history_save_line = vt.history_save_line
      /\ b.history_full = vt.history_full
  <2>1. b = [vt EXCEPT !.text = t]
    BY DEF t
  <2> QED BY <1>1, <2>1 DEF WF, StoreOK, Permutation, VTermState, total_history_lines
<1>6. SameHistory(b, vt)
  <2>1. vt.linenumbers[vt.cursor_y] >= HistoryLines
        /\ vt.linenumbers[vt.cursor_y] \in Lines
    BY <1>0, RowLines
  <2>2. \A x \in Lines : x < HistoryLines => x # vt.linenumbers[vt.cursor_y]
    BY <2>1, SizeAssumption DEF Lines
  <2> QED BY <1>2, <1>5, <2>2 DEF SameHistory
<1>7. t[l] \in {vt.text[l]} \cup Shortened(vt.text[l])
  <2>1. CASE t[l] = vt.text[l]
    BY <2>1
  <2>2. CASE t[l] = [z \in Zones |-> IF z \in last THEN Blank ELSE vt.text[l][z]]
    <3>1. CASE last = {}
      <4>1. t[l] = [z \in Zones |-> vt.text[l][z]]
        BY <2>2, <3>1
      <4> QED BY <1>4, <4>1
    <3>2. ASSUME NEW e \in last PROVE t[l] \in Shortened(vt.text[l])
      <4>1. \A z \in Zones : z \in last <=> z = e
        BY <3>2, TokenAssumption
      <4>2. e \in Zones
        BY <3>2
      <4>3. t[l] = [vt.text[l] EXCEPT ![e] = Blank]
        BY <1>4, <2>2, <4>1
      <4> QED BY <1>4, <4>2, <4>3 DEF Shortened
    <3> QED BY <3>1, <3>2
  <2> QED BY <1>3, <1>4, <2>1, <2>2
<1>8. RowText(b, 0) = t[l] /\ RowText(vt, 0) = vt.text[l]
  BY <1>5 DEF RowText, l
<1> QED BY <1>5, <1>6, <1>7, <1>8

LEMMA OneRowPushed ==
  ASSUME WF(vt), NEW b, WF(b),
         RowText(b, 0) \in {RowText(vt, 0)} \cup Shortened(RowText(vt, 0))
  PROVE  SubSeq(PageOf(b), 1, 1) \in Pushed(vt, 1)
<1>1. ASSUME NEW s, WF(s)
      PROVE  SubSeq(PageOf(s), 1, 1) = <<RowText(s, 0)>>
  <2> DEFINE p == PageOf(s)
  <2>1. p \in Seq(Line) /\ Len(p) >= 1 /\ p[1] = RowText(s, 0)
    <3>1. p \in Seq(Line) /\ Len(p) = H
      BY <1>1, LogType
    <3>2. p[1] = RowText(s, 0)
      <4>1. 1 \in 1 .. H /\ 1 - 1 = 0
        BY SizeAssumption
      <4>2. p[1] = RowText(s, 1 - 1)
        BY <4>1 DEF PageOf
      <4> QED BY <4>1, <4>2
    <3> HIDE DEF p
    <3> QED BY <3>1, <3>2, SizeAssumption
  <2> HIDE DEF p
  <2>2. SubSeq(p, 1, 1) = <<p[1]>>
    <3> DEFINE q == SubSeq(p, 1, 1)
               r == <<p[1]>>
    <3>1. q \in Seq(Line) /\ Len(q) = 1 /\ q[1] = p[1]
      BY <2>1
    <3>2. r \in Seq(Line) /\ Len(r) = 1 /\ r[1] = p[1]
      BY <2>1
    <3> HIDE DEF q, r
    <3>3. \A i \in 1 .. Len(q) : q[i] = r[i]
      BY <3>1, <3>2
    <3>4. q = r
      BY <3>1, <3>2, <3>3, SeqEqual
    <3> QED BY <3>4 DEF q, r
  <2> QED BY <2>1, <2>2 DEF p
<1> DEFINE u == RowText(vt, 0)
           w == RowText(b, 0)
           top == <<u>>
<1>2. SubSeq(PageOf(vt), 1, 1) = top /\ SubSeq(PageOf(b), 1, 1) = <<w>>
  <2>1. SubSeq(PageOf(vt), 1, 1) = <<RowText(vt, 0)>>
    BY <1>1
  <2>2. SubSeq(PageOf(b), 1, 1) = <<RowText(b, 0)>>
    BY <1>1
  <2> QED BY <2>1, <2>2
<1>3. Pushed(vt, 1) = {top} \cup {[top EXCEPT ![1] = t] : t \in Shortened(top[1])}
  <2> DEFINE p == SubSeq(PageOf(vt), 1, 1)
  <2>1. Pushed(vt, 1) = {p} \cup {[p EXCEPT ![1] = t] : t \in Shortened(p[1])}
    BY DEF Pushed
  <2>2. p = top
    BY <1>2
  <2> HIDE DEF p, top
  <2> QED BY <2>1, <2>2
<1>4. w \in {u} \cup Shortened(u)
  OBVIOUS
<1> HIDE DEF u, w
<1>5. CASE w = u
  BY <1>2, <1>3, <1>5
<1>6. CASE w \in Shortened(u)
  <2>1. top[1] = u /\ [top EXCEPT ![1] = w] = <<w>>
    OBVIOUS
  <2>2. <<w>> \in {[top EXCEPT ![1] = t] : t \in Shortened(top[1])}
    BY <1>6, <2>1
  <2> QED BY <1>2, <1>3, <2>2
<1> QED BY <1>4, <1>5, <1>6

LEMMA StepMaps ==
  ASSUME NoOverflow, Inv, ScreenInv, [Next]_vars
  PROVE  [History!SNext]_(History!svars)
<1> USE DEF ZoneSets
<1>0. /\ WF(vt) /\ WF(vt') /\ Inv' /\ ScreenInv'
      /\ vt.cursor_y \in Rows /\ vt.scroll_top \in Rows /\ vt.scroll_bot \in Rows
      /\ vt.visual_start_line \in Nat
      /\ total_history_lines(vt) \in Int
      /\ H \in Int /\ -H \in Int /\ Rows \subseteq Int /\ 1 <= H
  <2>1. Inv' /\ ScreenInv'
    BY StepInv, StepScreen
  <2>2. WF(vt) /\ WF(vt')
    BY <2>1 DEF Inv, TypeOK, LinesPermutation, WF
  <2> QED
    BY <2>1, <2>2, SizeAssumption
       DEF WF, StoreOK, VTermState, total_history_lines, Rows
<1>s. ASSUME NEW s, Handle(s), SameHistory(s, vt) PROVE History!Write
  BY <1>0, <1>s, HandleWrites DEF LogStep
<1>w. ASSUME NEW r, WF(r), NEW n, LogStep(r, vt, n), NEW ys \in SUBSET Rows,
             NEW zs \in SUBSET Zones, NEW v \in Tokens, Handle(WriteArea(r, ys, zs, v))
      PROVE  History!Write
  <2> DEFINE s == WriteArea(r, ys, zs, v)
  <2>1. SameHistory(s, r) /\ Handle(s)
    BY <1>w, WriteAreaHistory
  <2> HIDE DEF s
  <2>2. LogStep(s, vt, n)
    BY <1>w, <2>1, LogStepThen
  <2> QED BY <1>0, <2>1, <2>2, HandleWrites
<1>r. SameHistory(vt, vt) /\ LogStep(vt, vt, 0)
  BY DEF SameHistory, LogStep
<1>v. ASSUME NEW ok, NEW start_ \in Int, vt' = historyDisplay(vt, start_, ok, active)
      PROVE  History!Look
  <2>1. SameStore(vt', vt)
    BY <1>0, <1>v, HistoryDisplayFresh DEF SameStore
  <2>2. vt'.visual_start_line \in 0 .. total_history_lines(vt)
    <3>1. vt'.visual_start_line \in Nat
      BY <1>0 DEF WF, StoreOK, VTermState
    <3>2. vt'.visual_start_line <= total_history_lines(vt')
      BY <1>0 DEF WF, StoreOK
    <3>3. total_history_lines(vt') = total_history_lines(vt)
      BY <2>1 DEF SameStore, total_history_lines
    <3> QED BY <1>0, <3>1, <3>2, <3>3
  <2> QED BY <1>0, <2>1, <2>2, LogType, LookMap
<1>1. ASSUME NEW ok, BeginInput(ok) PROVE History!Look
  BY <1>0, <1>1, <1>v DEF BeginInput
<1>2. ASSUME NEW ok, EndInput(ok) PROVE UNCHANGED History!svars
  <2>1. SameStore(vt', vt) /\ vt'.visual_start_line = vt.visual_start_line
    BY <1>0, <1>2, UpdateFields DEF EndInput, SameStore, SameRing
  <2> QED BY <2>1, StutterMap
<1>3. ASSUME lf PROVE History!Write
  <2>1. Handle(linefeed(vt))
    BY <1>3 DEF lf
  <2>2. LogStep(linefeed(vt), vt, 1)
    BY <1>0, LinefeedLog
  <2> QED BY <1>0, <2>1, <2>2, HandleWrites
<1>4. ASSUME index_up PROVE History!Write
  <2>1. -1 \in Int
    OBVIOUS
  <2>2. CASE vt.cursor_y > vt.scroll_top
    <3>1. Handle(move_cursor(vt, vt.cursor_y - 1))
      BY <1>4, <2>2 DEF index_up
    <3>2. SameHistory(move_cursor(vt, vt.cursor_y - 1), vt)
      BY <1>0, MoveCursorHistory
    <3> QED BY <1>s, <3>1, <3>2
  <2>3. CASE ~(vt.cursor_y > vt.scroll_top)
    <3>1. Handle(scroll_region(vt, vt.scroll_top, vt.scroll_bot, -1))
      BY <1>4, <2>3 DEF index_up
    <3>2. LogStep(scroll_region(vt, vt.scroll_top, vt.scroll_bot, -1), vt, -1)
      BY <1>0, <2>1, ScrollRegionLog
    <3> QED BY <1>0, <3>1, <3>2, HandleWrites
  <2> QED BY <2>2, <2>3
<1>5. ASSUME NEW zs \in ZoneSets, NEW v \in Tokens, NEW wrap \in BOOLEAN,
             do_normal_char(zs, v, wrap)
      PROVE  History!Write
  <2> DEFINE s == IF wrap THEN linefeed(vt) ELSE vt
  <2>1. Handle(WriteArea(s, {s.cursor_y}, zs, v))
    BY <1>5 DEF do_normal_char
  <2>2. WF(s) /\ \E n : LogStep(s, vt, n)
    BY <1>0, <1>r, LinefeedWF, LinefeedLog
  <2> HIDE DEF s
  <2>3. {s.cursor_y} \in SUBSET Rows /\ zs \in SUBSET Zones
    BY <2>2 DEF WF, StoreOK, VTermState
  <2> QED BY <1>w, <2>1, <2>2, <2>3
<1>6. ASSUME NEW zs \in ZoneSets, NEW v \in Tokens, wide_char_wraps(zs, v)
      PROVE  History!Write
  <2> DEFINE last == {z \in Zones : \A x \in Zones : x <= z}
             b == [vt EXCEPT !.text =
                     Fill(vt, {vt.linenumbers[vt.cursor_y]}, last, Blank)]
             s == linefeed(b)
             t == WriteArea(s, {s.cursor_y}, zs, v)
  <2>1. Handle(t) /\ WideChars
    BY <1>6 DEF wide_char_wraps
  <2>2. /\ WF(b) /\ SameHistory(b, vt)
        /\ RowText(b, 0) \in {RowText(vt, 0)} \cup Shortened(RowText(vt, 0))
    BY <1>0, <2>1, LastColumnGivenUp
  <2> HIDE DEF b
  <2>3. WF(s) /\ LogStep(s, b, 1)
    BY <2>2, LinefeedWF, LinefeedLog
  <2> HIDE DEF s
  <2>4. {s.cursor_y} \in SUBSET Rows /\ zs \in SUBSET Zones
    BY <2>3 DEF WF, StoreOK, VTermState
  <2>5. SameHistory(t, s)
    BY <2>3, <2>4, WriteAreaHistory
  <2> HIDE DEF t
  <2>6. LogStep(t, b, 1)
    BY <2>3, <2>5, LogStepThen
  <2>7. CASE SameHistory(t, b)
    <3>1. SameHistory(t, vt)
      BY <2>2, <2>7 DEF SameHistory
    <3> QED BY <1>s, <2>1, <3>1
  <2>8. CASE \E k \in 1 .. H : k <= 1 /\ Leaves(t, b, k)
    <3>1. PICK k \in 1 .. H : k <= 1 /\ Leaves(t, b, k)
      BY <2>8
    <3>2. k = 1
      BY <3>1
    <3>3. LogOf(b) = LogOf(vt)
      BY <1>0, <2>2, SameLog
    <3>4. LogOf(t) = After(LogOf(vt), SubSeq(PageOf(b), 1, 1))
      BY <3>1, <3>2, <3>3 DEF Leaves
    <3>5. SubSeq(PageOf(b), 1, 1) \in Pushed(vt, 1)
      BY <1>0, <2>2, OneRowPushed
    <3>6. 1 \in 0 .. H
      BY <1>0
    <3> QED BY <1>0, <2>1, <3>4, <3>5, <3>6, HandlePushes
  <2> QED BY <2>6, <2>7, <2>8 DEF LogStep
<1>7. ASSUME NEW zs \in ZoneSets, NEW v \in Tokens, edit_row(zs, v)
      PROVE  History!Write
  <2>1. {vt.cursor_y} \in SUBSET Rows /\ zs \in SUBSET Zones
    BY <1>0
  <2> QED BY <1>0, <1>r, <1>w, <1>7, <2>1 DEF edit_row
<1>8. ASSUME NEW n \in 1 .. H, insert_line(n) \/ delete_line(n)
      PROVE  History!Write
  <2>1. vt.cursor_y .. vt.scroll_bot \in SUBSET Rows /\ Zones \in SUBSET Zones
    BY <1>0, SizeAssumption DEF Rows
  <2>2. n \in Int /\ -n \in Int
    OBVIOUS
  <2> DEFINE c == clear_area(vt, vt.cursor_y .. vt.scroll_bot, Zones)
             u == scroll_region(vt, vt.cursor_y, vt.scroll_bot, n)
             d == scroll_region(vt, vt.cursor_y, vt.scroll_bot, -n)
  <2>3. SameHistory(c, vt)
    BY <1>0, <2>1, WriteAreaHistory, TokenAssumption DEF clear_area
  <2>4. LogStep(u, vt, n) /\ LogStep(d, vt, -n)
    BY <1>0, <2>2, ScrollRegionLog
  <2>5. Handle(c) \/ Handle(u) \/ Handle(d)
    BY <1>8 DEF insert_line, delete_line
  <2> HIDE DEF c, u, d
  <2> QED BY <1>0, <1>s, <2>3, <2>4, <2>5, HandleWrites
<1>9. ASSUME NEW param \in 0 .. 2, NEW zs \in ZoneSets, erase_display(param, zs)
      PROVE  History!Write
  <2> DEFINE part == clear_area(vt, {vt.cursor_y}, zs)
             s == IF param = 2 THEN vt ELSE part
             rest == CASE param = 0 -> vt.cursor_y + 1 .. H - 1
                       [] param = 1 -> 0 .. vt.cursor_y - 1
                       [] param = 2 -> Rows
  <2>1. Handle(clear_area(s, rest, Zones))
    BY <1>9 DEF erase_display
  <2>2. rest \in SUBSET Rows /\ {vt.cursor_y} \in SUBSET Rows
        /\ zs \in SUBSET Zones /\ Zones \in SUBSET Zones
    <3>1. vt.cursor_y + 1 .. H - 1 \subseteq Rows /\ 0 .. vt.cursor_y - 1 \subseteq Rows
      BY <1>0 DEF Rows
    <3>2. param = 0 \/ param = 1 \/ param = 2
      OBVIOUS
    <3> QED BY <1>0, <3>1, <3>2
  <2> HIDE DEF rest
  <2>3. WF(part) /\ SameHistory(part, vt)
    BY <1>0, <2>2, WriteAreaWF, WriteAreaHistory, TokenAssumption DEF clear_area
  <2> HIDE DEF part
  <2>4. WF(s) /\ LogStep(s, vt, 0)
    BY <1>0, <1>r, <2>3 DEF LogStep
  <2> HIDE DEF s
  <2> QED BY <1>w, <2>1, <2>2, <2>4, TokenAssumption DEF clear_area
<1>10. ASSUME NEW v \in Tokens, screen_align(v) PROVE History!Write
  <2>1. Rows \in SUBSET Rows /\ Zones \in SUBSET Zones
    OBVIOUS
  <2> QED BY <1>0, <1>r, <1>w, <1>10, <2>1 DEF screen_align
<1>11. ASSUME NEW y \in Rows, cursor_position(y) PROVE History!Write
  BY <1>0, <1>s, <1>11, MoveCursorHistory DEF cursor_position
<1>12. ASSUME NEW t \in Rows, NEW b \in Rows, NEW ok, set_margins(t, b, ok)
       PROVE  History!Write
  <2> DEFINE s == IF vt.pending_scroll # 0 THEN update(vt, ok, active) ELSE vt
             m == [s EXCEPT !.scroll_top = t, !.scroll_bot = b]
             d == IF m.cursor_y < t THEN move_cursor(m, t) ELSE m
             e == IF d.cursor_y > b THEN move_cursor(d, b) ELSE d
  <2>0. t \in Nat /\ b \in Nat
    BY DEF Rows
  <2>1. Handle(e)
    BY <1>12 DEF set_margins
  <2>2. WF(s) /\ SameHistory(s, vt)
    BY <1>0, <1>r, UpdateWF, UpdateHistory
  <2> HIDE DEF s
  <2>3. WF(m)
    BY <2>2, MarginsWF
  <2>4. SameHistory(m, s)
    BY <2>2 DEF WF, StoreOK, VTermState, SameHistory
  <2> HIDE DEF m
  <2>5. WF(d) /\ SameHistory(d, m)
    BY <2>0, <2>3, MoveCursorWF, MoveCursorHistory DEF SameHistory
  <2> HIDE DEF d
  <2>6. SameHistory(e, d)
    BY <2>0, <2>5, MoveCursorHistory DEF SameHistory
  <2> HIDE DEF e
  <2>7. SameHistory(e, vt)
    BY <2>2, <2>4, <2>5, <2>6 DEF SameHistory
  <2> QED BY <1>s, <2>1, <2>7
<1>13. ASSUME reset PROVE History!Write
  <2> DEFINE a == [vt EXCEPT !.pending_scroll = 0]
             b == [a EXCEPT !.scroll_top = 0, !.scroll_bot = H - 1]
             c == [b EXCEPT !.cursor_y = 0]
  <2>1. Handle(WriteArea(c, Rows, Zones, Blank))
    BY <1>13 DEF reset, clear_area
  <2>2. WF(a) /\ SameHistory(a, vt)
    <3>1. WF(a)
      BY <1>0, PendingWF
    <3> QED BY <1>0, <3>1 DEF WF, StoreOK, VTermState, SameHistory
  <2> HIDE DEF a
  <2>3. 0 \in Rows /\ H - 1 \in Rows
    BY SizeAssumption DEF Rows
  <2>4. WF(b) /\ SameHistory(b, a)
    <3>1. WF(b)
      BY <2>2, <2>3, MarginsWF
    <3> QED BY <2>2, <3>1 DEF WF, StoreOK, VTermState, SameHistory
  <2> HIDE DEF b
  <2>5. WF(c) /\ SameHistory(c, b)
    BY <2>3, <2>4
       DEF WF, StoreOK, Permutation, VTermState, total_history_lines, SameHistory
  <2> HIDE DEF c
  <2>6. LogStep(c, vt, 0)
    BY <2>2, <2>4, <2>5 DEF SameHistory, LogStep
  <2>7. Rows \in SUBSET Rows /\ Zones \in SUBSET Zones
    OBVIOUS
  <2> QED BY <1>w, <2>1, <2>5, <2>6, <2>7, TokenAssumption
<1>14. ASSUME NEW n \in 1 .. MaxImage, NEW zs \in ZoneSets, NEW v \in Tokens,
              NEW ok, sixel_copy_to_cells(n, zs, v, ok)
       PROVE  History!Write
  <2>1. Handle(ImagePlaced(vt, n, zs, v, ok, active))
    BY <1>14 DEF sixel_copy_to_cells
  <2>2. n \in Nat /\ zs \in SUBSET Zones
    BY SizeAssumption
  <2>3. LogStep(ImagePlaced(vt, n, zs, v, ok, active), vt, H)
    BY <1>0, <2>2, ImagePlacedLog
  <2> QED BY <1>0, <2>1, <2>3, HandleWrites
<1>15. ASSUME NEW down \in BOOLEAN, NEW ok, historyScroll(down, ok)
       PROVE  History!Look
  <2>1. vt.visual_start_line + (IF down THEN H ELSE -H) \in Int
    BY <1>0
  <2>2. vt' = historyDisplay(vt, vt.visual_start_line + (IF down THEN H ELSE -H),
                              ok, active)
    BY <1>15 DEF historyScroll
  <2> QED BY <1>v, <2>1, <2>2, Zenon
<1>16. CASE Activate
  <2> DEFINE d == [y \in Rows |-> Zones]
  <2>1. vt' = requestUpdate(vt, d, TRUE)
    BY <1>16 DEF Activate
  <2> HIDE DEF d
  <2>2. Painted(vt', vt, d, TRUE)
    BY <1>0, <2>1, RequestUpdatePaints
  <2>3. SameStore(vt', vt) /\ vt'.visual_start_line = vt.visual_start_line
    BY <2>2 DEF Painted, SameRing, SameStore
  <2> QED BY <2>3, StutterMap
<1>17. CASE Deactivate
  <2>1. SameStore(vt', vt) /\ vt'.visual_start_line = vt.visual_start_line
    BY <1>0, <1>17 DEF Deactivate, WF, StoreOK, VTermState, SameStore
  <2> QED BY <2>1, StutterMap
<1>18. CASE UNCHANGED vars
  <2>1. SameStore(vt', vt) /\ vt'.visual_start_line = vt.visual_start_line
    BY <1>18 DEF vars, SameStore
  <2> QED BY <2>1, StutterMap
<1> QED
  BY <1>1, <1>2, <1>3, <1>4, <1>5, <1>6, <1>7, <1>8, <1>9, <1>10, <1>11,
     <1>12, <1>13, <1>14, <1>15, <1>16, <1>17, <1>18 DEF Next, History!SNext

LEMMA InitMaps ==
  ASSUME NoOverflow, Init
  PROVE  History!SInit
<1>1. WF(vt)
  BY InitInv, InvWF
<1>2. total_history_lines(vt) = 0 /\ vt.visual_start_line = 0
  BY DEF Init, total_history_lines
<1>3. Len(PageOf(vt)) = H /\ LogOf(vt) \in Seq(Line) /\ Len(LogOf(vt)) = 0
  BY <1>1, <1>2, LogType
<1>4. LogOf(vt) = <<>>
  BY <1>3
<1> QED
  BY <1>2, <1>3, <1>4
     DEF History!SInit, LogOf, PageOf, HistoryLine, BaseOf, RowText, total_history_lines

\* The ring, the renumbering of the rows and the view implement the log of
\* Scrollback: every handler adds to it at most the top rows of the page, in
\* their order, and never changes or loses another line; for every height and
\* length of the history, a ring shorter than the screen included.
THEOREM HistoryImplemented ==
  ASSUME NoOverflow
  PROVE  Spec => ImplementsScrollback
<1>1. Init => Inv /\ ScreenInv /\ History!SInit
  BY InitInv, InitScreen, InitMaps
<1>2. Inv /\ ScreenInv /\ [Next]_vars => Inv' /\ ScreenInv'
  BY StepInv, StepScreen
<1>3. Inv /\ ScreenInv /\ [Next]_vars => [History!SNext]_(History!svars)
  BY StepMaps
<1> QED
  BY <1>1, <1>2, <1>3, PTL DEF Spec, ImplementsScrollback, History!SSpec

=============================================================================
